---- MODULE Spec2Model ----
(***************************************************************************)
(* A model of the scan-classify-quarantine pipeline of the file organizer: *)
(* organizer.organize_files and the quarantine store / scanner adapter of  *)
(* security.py.  File names, extensions, category names and scanner output *)
(* are sequences of one-character strings, so that the string operations   *)
(* of the code (lower, suffix, stem, split, strip, substring tests, the    *)
(* "_N" renaming) are computed rather than assumed.                        *)
(***************************************************************************)
EXTENDS Integers, Sequences, FiniteSets, TLC

(***************************************************************************)
(* Bounds of the model.                                                    *)
(***************************************************************************)
\* largest number of regular files in the target folder at run start
MaxFiles == 2
\* largest number of candidates deleted by another process during a run
MaxVanish == 1
\* largest number of quarantine-store operations in one behaviour of SpecQ
MaxOps == 3

(***************************************************************************)
(* Strings.                                                                *)
(***************************************************************************)
UpperLetters == <<"A", "B", "C", "D", "E", "F", "G", "H", "I", "J", "K", "L", "M",
                  "N", "O", "P", "Q", "R", "S", "T", "U", "V", "W", "X", "Y", "Z">>

LowerLetters == <<"a", "b", "c", "d", "e", "f", "g", "h", "i", "j", "k", "l", "m",
                  "n", "o", "p", "q", "r", "s", "t", "u", "v", "w", "x", "y", "z">>

\* str.lower() on one character
LowerChar(c) ==
  IF \E k \in 1..26 : UpperLetters[k] = c
  THEN LowerLetters[CHOOSE k \in 1..26 : UpperLetters[k] = c]
  ELSE c

\* str.upper() on one character
UpperChar(c) ==
  IF \E k \in 1..26 : LowerLetters[k] = c
  THEN UpperLetters[CHOOSE k \in 1..26 : LowerLetters[k] = c]
  ELSE c

\* str.lower()
Lower(s) == [k \in 1..Len(s) |-> LowerChar(s[k])]

\* str.capitalize(): first character upper-cased, the rest lower-cased
Capitalize(s) == [k \in 1..Len(s) |-> IF k = 1 THEN UpperChar(s[k]) ELSE LowerChar(s[k])]

\* t in s (substring test)
Contains(s, t) ==
  \E k \in 0..(Len(s) - Len(t)) : SubSeq(s, k + 1, k + Len(t)) = t

\* s.find(c) + 1: the first position of character c in s, 0 when absent
Find(s, c) ==
  IF \E k \in 1..Len(s) : s[k] = c
  THEN CHOOSE k \in 1..Len(s) : s[k] = c /\ \A j \in 1..(k - 1) : s[j] # c
  ELSE 0

\* s.rfind(c) + 1: the last position of character c in s, 0 when absent
RFind(s, c) ==
  IF \E k \in 1..Len(s) : s[k] = c
  THEN CHOOSE k \in 1..Len(s) : s[k] = c /\ \A j \in (k + 1)..Len(s) : s[j] # c
  ELSE 0

RECURSIVE Split(_, _)
\* s.split(c): the pieces of s between the occurrences of c
Split(s, c) ==
  LET k == Find(s, c)
  IN IF k = 0 THEN <<s>>
     ELSE <<SubSeq(s, 1, k - 1)>> \o Split(SubSeq(s, k + 1, Len(s)), c)

Whitespace == {" ", "\n", "\t"}

RECURSIVE LStrip(_)
LStrip(s) == IF s # <<>> /\ Head(s) \in Whitespace THEN LStrip(Tail(s)) ELSE s

RECURSIVE RStrip(_)
RStrip(s) ==
  IF s # <<>> /\ s[Len(s)] \in Whitespace THEN RStrip(SubSeq(s, 1, Len(s) - 1)) ELSE s

\* str.strip()
Strip(s) == LStrip(RStrip(s))

Digits == <<"0", "1", "2", "3", "4", "5", "6", "7", "8", "9">>

RECURSIVE DecStr(_)
\* str(n) for a natural number n
DecStr(n) ==
  IF n < 10 THEN <<Digits[n + 1]>> ELSE DecStr(n \div 10) \o <<Digits[(n % 10) + 1]>>

(***************************************************************************)
(* pathlib: Path.suffix and Path.stem of a file name.                      *)
(***************************************************************************)
\* Path(name).suffix: from the last dot, unless the dot is first or last
Suffix(name) ==
  LET k == RFind(name, ".")
  IN IF 1 < k /\ k < Len(name) THEN SubSeq(name, k, Len(name)) ELSE <<>>

\* Path(name).stem
Stem(name) ==
  LET k == RFind(name, ".")
  IN IF 1 < k /\ k < Len(name) THEN SubSeq(name, 1, k - 1) ELSE name

(***************************************************************************)
(* organizer.py: the classifier.                                           *)
(***************************************************************************)
FILE_CATEGORIES ==
  << [cat |-> <<"D", "o", "c", "u", "m", "e", "n", "t", "s">>,
      exts |-> {<<".", "p", "d", "f">>,
                <<".", "d", "o", "c", "x">>,
                <<".", "t", "x", "t">>,
                <<".", "p", "p", "t", "x">>,
                <<".", "x", "l", "s", "x">>,
                <<".", "c", "s", "v">>}],
     [cat |-> <<"I", "m", "a", "g", "e", "s">>,
      exts |-> {<<".", "j", "p", "g">>,
                <<".", "j", "p", "e", "g">>,
                <<".", "p", "n", "g">>,
                <<".", "g", "i", "f">>,
                <<".", "b", "m", "p">>,
                <<".", "s", "v", "g">>}],
     [cat |-> <<"V", "i", "d", "e", "o", "s">>,
      exts |-> {<<".", "m", "p", "4">>,
                <<".", "m", "k", "v">>,
                <<".", "a", "v", "i">>,
                <<".", "m", "o", "v">>}],
     [cat |-> <<"M", "u", "s", "i", "c">>,
      exts |-> {<<".", "m", "p", "3">>,
                <<".", "w", "a", "v">>,
                <<".", "a", "a", "c">>,
                <<".", "f", "l", "a", "c">>}],
     [cat |-> <<"A", "r", "c", "h", "i", "v", "e", "s">>,
      exts |-> {<<".", "z", "i", "p">>,
                <<".", "r", "a", "r">>,
                <<".", "t", "a", "r">>,
                <<".", "g", "z">>}] >>

\* mimetypes.guess_type("file" + ext)[0] reduced to its primary type, for the
\* extensions of the standard table that the model's file names use; <<>> is None
GuessMainType(ext) ==
  CASE ext = <<".", "w", "e", "b", "p">> -> <<"i", "m", "a", "g", "e">>
    [] ext = <<".", "o", "g", "g">> -> <<"a", "u", "d", "i", "o">>
    [] ext = <<".", "w", "e", "b", "m">> -> <<"v", "i", "d", "e", "o">>
    [] ext = <<".", "e", "x", "e">> -> <<"a", "p", "p", "l", "i", "c", "a", "t", "i", "o", "n">>
    [] ext = <<".", "h", "t", "m", "l">> -> <<"t", "e", "x", "t">>
    [] OTHER -> <<>>

Others == <<"O", "t", "h", "e", "r", "s">>

\* get_category without extension.lower(): the table is consulted with the
\* extension as given
get_category_cased(extension) ==
  LET ext == extension
      hits == {k \in 1..Len(FILE_CATEGORIES) : ext \in FILE_CATEGORIES[k].exts}
      main_type == GuessMainType(ext)
  IN IF hits # {}
     THEN FILE_CATEGORIES[CHOOSE k \in hits : \A j \in hits : k <= j].cat
     ELSE IF main_type \in {<<"i", "m", "a", "g", "e">>,
                            <<"v", "i", "d", "e", "o">>,
                            <<"a", "u", "d", "i", "o">>}
          THEN Capitalize(main_type) \o <<"s">>
          ELSE Others

\* get_category with the leading dot dropped before the lookup, so that no
\* table entry matches
get_category_dotless(extension) ==
  LET ext == SubSeq(Lower(extension), 2, Len(extension))
      hits == {k \in 1..Len(FILE_CATEGORIES) : ext \in FILE_CATEGORIES[k].exts}
  IN IF hits # {}
     THEN FILE_CATEGORIES[CHOOSE k \in hits : \A j \in hits : k <= j].cat
     ELSE Others

\* get_category(extension)
get_category(extension) ==
  LET ext == Lower(extension)
      hits == {k \in 1..Len(FILE_CATEGORIES) : ext \in FILE_CATEGORIES[k].exts}
      main_type == GuessMainType(ext)
  IN IF hits # {}
     THEN FILE_CATEGORIES[CHOOSE k \in hits : \A j \in hits : k <= j].cat
     ELSE IF main_type \in {<<"i", "m", "a", "g", "e">>,
                            <<"v", "i", "d", "e", "o">>,
                            <<"a", "u", "d", "i", "o">>}
          THEN Capitalize(main_type) \o <<"s">>
          ELSE Others

(***************************************************************************)
(* security.py: the scanner adapter.  The scanning engine is external: the *)
(* daemon's answer and the command-line tool's behaviour are inputs.       *)
(***************************************************************************)
\* what cd.scan_file does: raises (daemon not running), answers None, answers a detection
DaemonOutcomes == {"raises", "clean", "found"}

\* what subprocess.run(["clamscan", ...]) does: FileNotFoundError, another
\* exception, or a completed process whose output reports OK, FOUND or an error
CliOutcomes == {"notinstalled", "error", "ok", "found", "other"}

\* the signature name the engine reports
Signature == <<"E", "i", "c", "a", "r">>

\* str(folder / name): the path handed to the scanner
FolderPath == <<"/", "t">>

PathOf(name) == FolderPath \o <<"/">> \o name

\* the base classes of the exceptions the engines raise
Mro(exc) ==
  CASE exc = "FileNotFoundError" -> {"FileNotFoundError", "OSError", "Exception"}
    [] exc = "PermissionError" -> {"PermissionError", "OSError", "Exception"}
    [] exc = "ValueError" -> {"ValueError", "Exception"}
    [] OTHER -> {}

\* the first except clause of a try statement that handles exc; 0 when none does
Handler(handlers, exc) ==
  LET hits == {k \in 1..Len(handlers) : handlers[k] \in Mro(exc)}
  IN IF hits = {} THEN 0 ELSE CHOOSE k \in hits : \A j \in hits : k <= j

\* the exception pyclamd.ClamdAgnostic() or cd.scan_file raises ("" for none)
DaemonRaises(daemon) == IF daemon = "raises" THEN "ValueError" ELSE ""

\* the exception subprocess.run raises ("" when the process completes)
CliRaises(cli) ==
  CASE cli = "notinstalled" -> "FileNotFoundError"
    [] cli = "error" -> "PermissionError"
    [] OTHER -> ""

\* str(e) of that exception
ExcText(exc) == <<"d", "e", "n", "i", "e", "d">>

\* r.stdout + r.stderr of a completed clamscan process
ClamscanOutput(path, cli) ==
  CASE cli = "ok" -> path \o <<":", " ", "O", "K", "\n">>
    [] cli = "found" -> path \o <<":", " ">> \o Signature \o <<" ", "F", "O", "U", "N", "D", "\n">>
    [] OTHER -> path \o <<":", " ", "C", "a", "n", "'", "t", " ", "o", "p", "e", "n", " ", "f", "i", "l", "e", " ", "E", "R", "R", "O", "R", "\n">>

\* the except clauses of _clamd_scan_file, of _clamscan_fallback and of
\* scan_file, in order
ClamdHandlers == <<"Exception">>

FallbackHandlersNarrow == <<"FileNotFoundError">>

FallbackHandlers == <<"FileNotFoundError", "Exception">>

ScanFileHandlers == <<"Exception">>

\* _clamd_scan_file(path): res is None (here <<>>) for clean or unavailable,
\* else the (state, signature) pair of the daemon's result; raised is the
\* exception that leaves the function ("" for none)
clamd_scan_file(have_pyclamd, daemon) ==
  LET exc == DaemonRaises(daemon)
  IN IF ~have_pyclamd THEN [res |-> <<>>, raised |-> ""]
     ELSE IF exc # ""
          THEN [res |-> <<>>,
                raised |-> IF Handler(ClamdHandlers, exc) # 0 THEN "" ELSE exc]
          ELSE IF daemon = "found"
               THEN [res |-> <<<<"F", "O", "U", "N", "D">>, Signature>>, raised |-> ""]
               ELSE [res |-> <<>>, raised |-> ""]

\* ParseClamscan reporting "OK" for an output with neither "OK" nor "FOUND"
ParseClamscanAlwaysTagged(out) ==
  LET parts == Split(out, ":")
  IN IF Contains(out, <<"O", "K">>) THEN <<FALSE, <<"O", "K">>>>
     ELSE IF Contains(out, <<"F", "O", "U", "N", "D">>)
          THEN <<TRUE, IF Len(parts) >= 2 THEN Strip(parts[2]) ELSE Strip(out)>>
          ELSE <<FALSE, <<"O", "K">>>>

\* the body of the try of _clamscan_fallback, from the combined output on:
\* <<infected, message>>
ParseClamscan(out) ==
  LET parts == Split(out, ":")
  IN IF Contains(out, <<"O", "K">>) THEN <<FALSE, <<"O", "K">>>>
     ELSE IF Contains(out, <<"F", "O", "U", "N", "D">>)
          THEN <<TRUE, IF Len(parts) >= 2 THEN Strip(parts[2]) ELSE Strip(out)>>
          ELSE <<FALSE, Strip(out)>>

\* _clamscan_fallback(path): <<infected, message, raised>>
clamscan_fallback(path, cli) ==
  LET exc == CliRaises(cli)
      h == Handler(FallbackHandlers, exc)
  IN IF exc = "" THEN ParseClamscan(ClamscanOutput(path, cli)) \o <<"">>
     ELSE IF h = 0 THEN <<FALSE, <<>>, exc>>
     ELSE IF FallbackHandlers[h] = "FileNotFoundError"
          THEN <<FALSE, <<"c", "l", "a", "m", "s", "c", "a", "n", "-", "n", "o", "t", "-", "i", "n", "s", "t", "a", "l", "l", "e", "d">>, "">>
          ELSE <<FALSE, <<"c", "l", "a", "m", "s", "c", "a", "n", "-", "e", "r", "r", "o", "r", ":", " ">> \o ExcText(exc), "">>

\* scan_file(path): the verdict {path, infected, detail}; raised is the
\* exception that leaves the function ("" for none)
scan_file(path, have_pyclamd, daemon, cli) ==
  LET r == clamd_scan_file(have_pyclamd, daemon)
      fb == clamscan_fallback(path, cli)
      fallback == [path |-> path, infected |-> fb[1], detail |-> fb[2], raised |-> fb[3]]
  IN IF have_pyclamd
     THEN IF r.raised # ""
          THEN IF Handler(ScanFileHandlers, r.raised) # 0
               THEN fallback
               ELSE [path |-> path, infected |-> FALSE, detail |-> <<>>, raised |-> r.raised]
          ELSE IF r.res # <<>>
               THEN [path |-> path, infected |-> TRUE,
                     detail |-> r.res[2] \o <<" ", "(">> \o r.res[1] \o <<")">>, raised |-> ""]
               ELSE [path |-> path, infected |-> FALSE, detail |-> <<"O", "K", " ", "(", "c", "l", "a", "m", "d", ")">>, raised |-> ""]
     ELSE fallback

(***************************************************************************)
(* security.py: the quarantine store.  A directory is a function from the  *)
(* names of the regular files in it to their contents.                     *)
(***************************************************************************)
RECURSIVE QuarantineProbe(_, _, _, _, _)
\* the while loop of move_to_quarantine: the first name not taken
QuarantineProbe(dest, base, suf, counter, taken) ==
  IF dest \in taken
  THEN QuarantineProbe(base \o <<"_">> \o DecStr(counter) \o suf, base, suf, counter + 1, taken)
  ELSE dest

\* move_to_quarantine without its while loop: the source's own name, taken or not
QuarantineDestUnchecked(name, taken) == name

\* the destination name move_to_quarantine computes for a source named name
QuarantineDest(name, taken) == QuarantineProbe(name, Stem(name), Suffix(name), 1, taken)

\* list_quarantine()
list_quarantine(q) == DOMAIN q

\* d with the entry name removed
Remove(d, name) == [n \in (DOMAIN d) \ {name} |-> d[n]]

\* d with the entry name set to content (replacing an entry of that name)
Put(d, name, content) == [n \in (DOMAIN d) \cup {name} |-> IF n = name THEN content ELSE d[n]]

\* move_to_quarantine(path) for the file name of directory dir, with the
\* quarantine q; fault is the filesystem refusing the move.  raised is "" when
\* the call returns, else the exception; dest is the entry name returned
move_to_quarantine(name, dir, q, fault) ==
  IF name \notin DOMAIN dir
  THEN [raised |-> "FileNotFoundError", dir |-> dir, q |-> q, dest |-> <<>>]
  ELSE LET dest == QuarantineDest(name, DOMAIN q)
       IN IF fault
          THEN [raised |-> "PermissionError", dir |-> dir, q |-> q, dest |-> <<>>]
          ELSE [raised |-> "", dir |-> Remove(dir, name),
                q |-> Put(q, dest, dir[name]), dest |-> dest]

\* restore_from_quarantine returning normally for a filename that is absent
restore_from_quarantine_lenient(filename, q, dir, fault) ==
  IF filename \notin DOMAIN q
  THEN [raised |-> "", dir |-> dir, q |-> q, dest |-> filename]
  ELSE IF fault
       THEN [raised |-> "PermissionError", dir |-> dir, q |-> q, dest |-> <<>>]
       ELSE [raised |-> "", dir |-> Put(dir, filename, q[filename]),
             q |-> Remove(q, filename), dest |-> filename]

\* restore_from_quarantine copying the file out and leaving the entry in place
restore_from_quarantine_copy(filename, q, dir, fault) ==
  IF filename \notin DOMAIN q
  THEN [raised |-> "FileNotFoundError", dir |-> dir, q |-> q, dest |-> <<>>]
  ELSE IF fault
       THEN [raised |-> "PermissionError", dir |-> dir, q |-> q, dest |-> <<>>]
       ELSE [raised |-> "", dir |-> Put(dir, filename, q[filename]),
             q |-> q, dest |-> filename]

\* restore_from_quarantine(filename, dest_folder) into the directory dir
restore_from_quarantine(filename, q, dir, fault) ==
  IF filename \notin DOMAIN q
  THEN [raised |-> "FileNotFoundError", dir |-> dir, q |-> q, dest |-> <<>>]
  ELSE IF fault
       THEN [raised |-> "PermissionError", dir |-> dir, q |-> q, dest |-> <<>>]
       ELSE [raised |-> "", dir |-> Put(dir, filename, q[filename]),
             q |-> Remove(q, filename), dest |-> filename]

\* delete_from_quarantine raising FileNotFoundError for a filename that is absent
delete_from_quarantine_strict(filename, q, fault) ==
  IF filename \in DOMAIN q
  THEN IF fault
       THEN [raised |-> "PermissionError", ret |-> FALSE, q |-> q]
       ELSE [raised |-> "", ret |-> TRUE, q |-> Remove(q, filename)]
  ELSE [raised |-> "FileNotFoundError", ret |-> FALSE, q |-> q]

\* delete_from_quarantine(filename); fault is the filesystem refusing the
\* unlink
delete_from_quarantine(filename, q, fault) ==
  IF filename \in DOMAIN q
  THEN IF fault
       THEN [raised |-> "PermissionError", ret |-> FALSE, q |-> q]
       ELSE [raised |-> "", ret |-> TRUE, q |-> Remove(q, filename)]
  ELSE [raised |-> "", ret |-> FALSE, q |-> q]

(***************************************************************************)
(* The files of the model.  A file's content records where the file was    *)
(* when the behaviour began, which identifies it wherever it is moved.     *)
(***************************************************************************)
a_jpg == <<"a", ".", "j", "p", "g">>

b_txt == <<"b", ".", "t", "x", "t">>

x_exe == <<"x", ".", "e", "x", "e">>

x_1_exe == <<"x", "_", "1", ".", "e", "x", "e">>

\* the names a regular file of the target folder can have; the last one has no
\* extension and is the name of the fallback category folder
CandidateNames == {a_jpg, b_txt, x_exe, Others}

\* st_size of the file first named name
FileSize(name) ==
  CASE name = a_jpg -> 1
    [] name = b_txt -> 2
    [] name = x_exe -> 4
    [] OTHER -> 8

File(origin, name, serial) ==
  [origin |-> origin, name |-> name, size |-> FileSize(name), serial |-> serial]

\* the directory holding the files names, each with origin origin
DirOf(origin, names) == [n \in names |-> File(origin, n, 0)]

Images == <<"I", "m", "a", "g", "e", "s">>

Documents == <<"D", "o", "c", "u", "m", "e", "n", "t", "s">>

\* the category folders present under the target folder before the run
InitialCategoryFolders ==
  { <<>>,
    [c \in {Images} |-> DirOf("category", {a_jpg})],
    [c \in {Documents} |-> DirOf("category", {})] }

\* the quarantine contents before the run
InitialQuarantines ==
  { DirOf("quarantine", {}),
    DirOf("quarantine", {x_exe}),
    DirOf("quarantine", {x_exe, x_1_exe}) }

\* the orders in which folder.iterdir() can yield the files names
Orders(names) ==
  {s \in [1..Cardinality(names) -> names] : \A j, k \in 1..Cardinality(names) : s[j] = s[k] => j = k}

(***************************************************************************)
(* State.                                                                  *)
(***************************************************************************)
VARIABLES
  folder,           \* regular files directly in the target folder: name -> content
  catdir,           \* sub-folders of the target folder: name -> (name -> content)
  quarantine,       \* QUARANTINE_DIR: entry name -> content
  HAVE_PYCLAMD,     \* security.HAVE_PYCLAMD
  pc,               \* "idle", "running" (inside the for loop), "done" (returned)
  enable_security,  \* the argument of organize_files
  files,            \* the list files of organize_files
  i,                \* the loop index, 1-based
  logs,             \* the list logs
  analytics,        \* the dict analytics
  scan_results,     \* the verdicts scan_file returned in this run, in order
  vanished,         \* the candidates another process deleted during the run
  ops,              \* how many quarantine-store operations were made
  serial,           \* how many files were created in the working folder
  last,             \* the last event of the store: the call and its outcome
  lost,             \* the files a move destroyed by replacing them
  progress,         \* the calls progress_callback received in this run, in order
  scan,             \* one call of scan_file: its inputs and the verdict it returned
  folder_path,      \* FileOrganizerApp.folder_path ("" until a folder is chosen)
  security_folder_path, \* FileOrganizerApp.security_folder_path
  workers,          \* the threads the window started, in order
  sf,               \* one call of scan_folder: its arguments, locals and outcome
  gc,               \* one call of get_category: its argument and the category returned
  mq                \* the threads inside move_to_quarantine: their locals and position

vars == <<folder, catdir, quarantine, HAVE_PYCLAMD, pc, enable_security, files, i,
          logs, analytics, scan_results, vanished, ops, serial, last, lost,
          progress, scan, folder_path, security_folder_path, workers, sf, gc, mq>>

fsvars == <<folder, catdir, quarantine>>

runvars == <<pc, enable_security, files, i, logs, analytics, scan_results, vanished,
             progress>>

storevars == <<ops, serial, last>>

guivars == <<folder_path, security_folder_path, workers>>

callvars == <<gc, mq>>

\* the contents of the files of a directory
Contents(d) == {d[n] : n \in DOMAIN d}

\* every file present in the target folder, its sub-folders and the quarantine
Present(f, c, q) == Contents(f) \cup UNION {Contents(c[k]) : k \in DOMAIN c} \cup Contents(q)

\* analytics as organize_files builds it for total files (time_taken_sec, a
\* wall-clock reading, is left out)
NewAnalytics(total) ==
  [total_files |-> total,
   total_size_bytes |-> 0,
   categories |-> <<>>,
   security_scan |-> [scanned |-> 0, infected |-> 0, quarantined |-> 0, clean |-> 0]]

NoCall == [op |-> "none", arg |-> <<>>, raised |-> "", dest |-> <<>>, ret |-> FALSE,
           shown |-> ""]

\* before scan_file is called
NoScan == [path |-> <<>>, daemon |-> "clean", cli |-> "ok", done |-> FALSE,
           verdict |-> [path |-> <<>>, infected |-> FALSE, detail |-> <<>>, raised |-> ""]]

\* the filesystem and the installation, before anything runs
InitWorld ==
  /\ \E names \in SUBSET CandidateNames :
       /\ Cardinality(names) <= MaxFiles
       /\ folder = DirOf("folder", names)
  /\ catdir \in InitialCategoryFolders
  /\ quarantine \in InitialQuarantines
  /\ HAVE_PYCLAMD \in BOOLEAN
  /\ pc = "idle"
  /\ enable_security = FALSE
  /\ files = <<>>
  /\ i = 1
  /\ logs = <<>>
  /\ analytics = NewAnalytics(0)
  /\ scan_results = <<>>
  /\ vanished = {}
  /\ ops = 0
  /\ serial = 0
  /\ last = NoCall
  /\ lost = {}
  /\ progress = <<>>
  /\ folder_path = ""
  /\ security_folder_path = ""
  /\ workers = <<>>

\* no email report composed
NoReport == [subject |-> "", threat_section |-> FALSE, clear_line |-> FALSE,
             mismatch_section |-> FALSE, scanned |-> 0, threats |-> 0,
             suspicious |-> 0, clean |-> 0]

\* before scan_folder is called
NoSf == [pc |-> "idle", files |-> <<>>, i |-> 1, expected_mime_map |-> <<>>,
         have_magic |-> FALSE, email_enabled |-> FALSE, email_configured |-> FALSE,
         scan_results |-> <<>>, mime_results |-> <<>>, progress |-> <<>>,
         report |-> NoReport, sent |-> "none"]

\* before get_category is called
NoGc == [extension |-> <<>>, called |-> FALSE, category |-> <<>>]

\* no thread is inside move_to_quarantine
NoMq == [threads |-> <<>>, interleaved |-> FALSE]

Init == InitWorld /\ scan = NoScan /\ sf = NoSf /\ gc = NoGc /\ mq = NoMq

(***************************************************************************)
(* organizer.py: organize_files.                                           *)
(***************************************************************************)
\* one entry of logs: which message, about which file, with which scan detail
\* or category, and the exception text it quotes
LogEntry(kind, name, detail, exc) ==
  [kind |-> kind, name |-> name, detail |-> detail, exc |-> exc]

\* the injected filesystem refusals: the operation that fails if it is reached
Faults == {"none", "mkdir", "move", "quarantine"}

\* the state one loop iteration works on
RunState == [folder |-> folder, catdir |-> catdir, quarantine |-> quarantine,
             logs |-> logs, analytics |-> analytics]

\* OrganizeFile with an except clause that swallows the exception: a failure
\* leaves no entry in the log
OrganizeFileSwallow(file, st, fault) ==
  IF file \notin DOMAIN st.folder
  THEN st
  ELSE
    LET size == st.folder[file].size
        category == get_category(Suffix(file))
        counted == [st EXCEPT
                      !.analytics.total_size_bytes = @ + size,
                      !.analytics.categories =
                         Put(@, category, (IF category \in DOMAIN @ THEN @[category] ELSE 0) + 1)]
        made == [counted EXCEPT
                   !.catdir = IF category \in DOMAIN @ THEN @ ELSE Put(@, category, <<>>)]
    IN IF category \in DOMAIN st.folder
       THEN counted
       ELSE IF category \notin DOMAIN st.catdir /\ fault = "mkdir"
       THEN counted
       ELSE IF fault = "move"
       THEN made
       ELSE [made EXCEPT
               !.folder = Remove(@, file),
               !.catdir[category] = Put(@, file, st.folder[file]),
               !.logs = Append(@, LogEntry("moved", file, category, ""))]

\* "File organization": stat, count, mkdir, move, log; an exception anywhere
\* is caught by the loop's except clause, which logs it
OrganizeFile(file, st, fault) ==
  IF file \notin DOMAIN st.folder
  THEN [st EXCEPT !.logs = Append(@, LogEntry("error", file, <<>>, "FileNotFoundError"))]
  ELSE
    LET size == st.folder[file].size
        category == get_category(Suffix(file))
        counted == [st EXCEPT
                      !.analytics.total_size_bytes = @ + size,
                      !.analytics.categories =
                         Put(@, category, (IF category \in DOMAIN @ THEN @[category] ELSE 0) + 1)]
        made == [counted EXCEPT
                   !.catdir = IF category \in DOMAIN @ THEN @ ELSE Put(@, category, <<>>)]
    IN IF category \in DOMAIN st.folder
       THEN [counted EXCEPT
               !.logs = Append(@, LogEntry("error", file, <<>>, "FileExistsError"))]
       ELSE IF category \notin DOMAIN st.catdir /\ fault = "mkdir"
       THEN [counted EXCEPT
               !.logs = Append(@, LogEntry("error", file, <<>>, "PermissionError"))]
       ELSE IF fault = "move"
       THEN [made EXCEPT
               !.logs = Append(@, LogEntry("error", file, <<>>, "PermissionError"))]
       ELSE [made EXCEPT
               !.folder = Remove(@, file),
               !.catdir[category] = Put(@, file, st.folder[file]),
               !.logs = Append(@, LogEntry("moved", file, category, ""))]

\* QuarantineFile with an inner except clause that does not log
QuarantineFileUnlogged(file, st, verdict, fault) ==
  LET m == move_to_quarantine(file, st.folder, st.quarantine, fault = "quarantine")
  IN IF m.raised = ""
     THEN [st EXCEPT
             !.folder = m.dir,
             !.quarantine = m.q,
             !.logs = Append(@, LogEntry("quarantined", file, verdict.detail, "")),
             !.analytics.security_scan.infected = @ + 1,
             !.analytics.security_scan.quarantined = @ + 1]
     ELSE st

\* QuarantineFile counting quarantined before the move is attempted
QuarantineFileCountsFirst(file, st, verdict, fault) ==
  LET m == move_to_quarantine(file, st.folder, st.quarantine, fault = "quarantine")
      counted == [st EXCEPT !.analytics.security_scan.quarantined = @ + 1]
  IN IF m.raised = ""
     THEN [counted EXCEPT
             !.folder = m.dir,
             !.quarantine = m.q,
             !.logs = Append(@, LogEntry("quarantined", file, verdict.detail, "")),
             !.analytics.security_scan.infected = @ + 1]
     ELSE [counted EXCEPT
             !.logs = Append(@, LogEntry("infected", file, <<>>, m.raised))]

\* "Security scanning" of an infected file: quarantine it, count it, log it
QuarantineFile(file, st, verdict, fault) ==
  LET m == move_to_quarantine(file, st.folder, st.quarantine, fault = "quarantine")
  IN IF m.raised = ""
     THEN [st EXCEPT
             !.folder = m.dir,
             !.quarantine = m.q,
             !.logs = Append(@, LogEntry("quarantined", file, verdict.detail, "")),
             !.analytics.security_scan.infected = @ + 1,
             !.analytics.security_scan.quarantined = @ + 1]
     ELSE [st EXCEPT
             !.logs = Append(@, LogEntry("infected", file, <<>>, m.raised))]

\* ProcessFile without the continue after the quarantine attempt: the file goes
\* on to be organized
ProcessFileNoContinue(file, st, security, verdict, fault) ==
  IF security
  THEN LET scanned == [st EXCEPT !.analytics.security_scan.scanned = @ + 1]
       IN IF verdict.infected
          THEN OrganizeFile(file, QuarantineFile(file, scanned, verdict, fault), fault)
          ELSE OrganizeFile(file,
                 [scanned EXCEPT
                    !.analytics.security_scan.clean = @ + 1,
                    !.logs = Append(@, LogEntry("passed", file, <<>>, ""))],
                 fault)
  ELSE OrganizeFile(file, st, fault)

\* the body of the for loop for one file, given the scanner's verdict
ProcessFile(file, st, security, verdict, fault) ==
  IF security
  THEN LET scanned == [st EXCEPT !.analytics.security_scan.scanned = @ + 1]
       IN IF verdict.infected
          THEN QuarantineFile(file, scanned, verdict, fault)
          ELSE OrganizeFile(file,
                 [scanned EXCEPT
                    !.analytics.security_scan.clean = @ + 1,
                    !.logs = Append(@, LogEntry("passed", file, <<>>, ""))],
                 fault)
  ELSE OrganizeFile(file, st, fault)

\* one call progress_callback(pct, message): the percent and which message
ProgressEvent(pct, kind) == [pct |-> pct, kind |-> kind]

\* int((k / total) * 50): the float product truncated, which is the integer
\* quotient for the totals reached here
HalfPercent(k, total) == (50 * k) \div total

\* the progress calls of iteration k of the loop: "Scanning" before the scan
\* when security is enabled, "Organizing" once the file passed the scan and
\* its size was read
IterationProgress(file, dir, k, total, security, verdict) ==
  (IF security THEN <<ProgressEvent(HalfPercent(k, total), "scanning")>> ELSE <<>>)
  \o (IF (security /\ verdict.infected) \/ file \notin DOMAIN dir
      THEN <<>>
      ELSE <<ProgressEvent(HalfPercent(k, total) + 50, "organizing")>>)

\* FinalProgress announcing threats whenever security scanning was enabled
FinalProgressAlways(security, sec_info) ==
  <<ProgressEvent(100, "completed")>>
  \o (IF security THEN <<ProgressEvent(100, "threats")>> ELSE <<>>)

\* the progress calls after the loop: "Completed", then the threat count when
\* any file was counted infected
FinalProgress(security, sec_info) ==
  <<ProgressEvent(100, "completed")>>
  \o (IF security /\ sec_info.infected > 0
      THEN <<ProgressEvent(100, "threats")>> ELSE <<>>)

\* organize_files without the early return of an empty folder
StartRunNoEarlyReturn ==
  /\ pc = "idle"
  /\ \E security \in BOOLEAN, order \in Orders(DOMAIN folder) :
       /\ enable_security' = security
       /\ files' = order
       /\ analytics' = NewAnalytics(Len(order))
  /\ pc' = "running"
  /\ progress' = <<>>
  /\ i' = 1
  /\ logs' = <<>>
  /\ scan_results' = <<>>
  /\ UNCHANGED <<fsvars, HAVE_PYCLAMD, vanished, storevars, lost, scan, guivars>>
  /\ UNCHANGED sf
  /\ UNCHANGED callvars

\* organize_files listing the folder recursively, as scan_folder does
StartRunRecursive ==
  /\ pc = "idle"
  /\ \E security \in BOOLEAN,
        order \in Orders(DOMAIN folder \cup UNION {DOMAIN catdir[k] : k \in DOMAIN catdir}) :
       /\ enable_security' = security
       /\ files' = order
       /\ analytics' = NewAnalytics(Len(order))
       /\ pc' = IF Len(order) = 0 THEN "done" ELSE "running"
       /\ progress' = IF Len(order) = 0
                      THEN <<ProgressEvent(100, "nofiles")>> ELSE <<>>
  /\ i' = 1
  /\ logs' = <<>>
  /\ scan_results' = <<>>
  /\ UNCHANGED <<fsvars, HAVE_PYCLAMD, vanished, storevars, lost, scan, guivars>>
  /\ UNCHANGED sf
  /\ UNCHANGED callvars

\* organize_files(folder_path, enable_security=security) up to the loop: the
\* snapshot of the folder, the fresh analytics, and the early return of an
\* empty folder
StartRun ==
  /\ pc = "idle"
  /\ \E security \in BOOLEAN, order \in Orders(DOMAIN folder) :
       /\ enable_security' = security
       /\ files' = order
       /\ analytics' = NewAnalytics(Len(order))
       /\ pc' = IF Len(order) = 0 THEN "done" ELSE "running"
       /\ progress' = IF Len(order) = 0
                      THEN <<ProgressEvent(100, "nofiles")>> ELSE <<>>
  /\ i' = 1
  /\ logs' = <<>>
  /\ scan_results' = <<>>
  /\ UNCHANGED <<fsvars, HAVE_PYCLAMD, vanished, storevars, lost, scan, guivars>>
  /\ UNCHANGED sf
  /\ UNCHANGED callvars

\* the verdicts scan_file can return for path, over what the engine can do
Verdicts(path) ==
  {scan_file(path, HAVE_PYCLAMD, daemon, cli) : daemon \in DaemonOutcomes, cli \in CliOutcomes}

\* the for loop stepping over the candidate after the one it processed
StepSkipping ==
  /\ pc = "running"
  /\ i <= Len(files)
  /\ \E verdict \in IF enable_security THEN Verdicts(PathOf(files[i])) ELSE {<<>>},
        fault \in Faults :
       LET file == files[i]
           st == ProcessFile(file, RunState, enable_security, verdict, fault)
       IN /\ folder' = st.folder
          /\ catdir' = st.catdir
          /\ quarantine' = st.quarantine
          /\ logs' = st.logs
          /\ analytics' = st.analytics
          /\ lost' = lost \cup (Present(folder, catdir, quarantine)
                                  \ Present(st.folder, st.catdir, st.quarantine))
          /\ scan_results' = IF enable_security
                             THEN Append(scan_results,
                                         [name |-> file, infected |-> verdict.infected])
                             ELSE scan_results
          /\ progress' = progress \o IterationProgress(file, folder, i, Len(files),
                                                       enable_security, verdict)
  /\ i' = i + 2
  /\ UNCHANGED <<HAVE_PYCLAMD, pc, enable_security, files, vanished, storevars,
                 scan, guivars>>
  /\ UNCHANGED sf
  /\ UNCHANGED callvars

\* one iteration of the for loop
Step ==
  /\ pc = "running"
  /\ i <= Len(files)
  /\ \E verdict \in IF enable_security THEN Verdicts(PathOf(files[i])) ELSE {<<>>},
        fault \in Faults :
       LET file == files[i]
           st == ProcessFile(file, RunState, enable_security, verdict, fault)
       IN /\ folder' = st.folder
          /\ catdir' = st.catdir
          /\ quarantine' = st.quarantine
          /\ logs' = st.logs
          /\ analytics' = st.analytics
          /\ lost' = lost \cup (Present(folder, catdir, quarantine)
                                  \ Present(st.folder, st.catdir, st.quarantine))
          /\ scan_results' = IF enable_security
                             THEN Append(scan_results,
                                         [name |-> file, infected |-> verdict.infected])
                             ELSE scan_results
          /\ progress' = progress \o IterationProgress(file, folder, i, Len(files),
                                                       enable_security, verdict)
  /\ i' = i + 1
  /\ UNCHANGED <<HAVE_PYCLAMD, pc, enable_security, files, vanished, storevars,
                 scan, guivars>>
  /\ UNCHANGED sf
  /\ UNCHANGED callvars

\* another process deletes a candidate the loop has not reached yet
Vanish ==
  /\ pc = "running"
  /\ Cardinality(vanished) < MaxVanish
  /\ \E k \in i..Len(files) :
       /\ files[k] \in DOMAIN folder
       /\ folder' = Remove(folder, files[k])
       /\ vanished' = vanished \cup {files[k]}
  /\ UNCHANGED <<catdir, quarantine, HAVE_PYCLAMD, pc, enable_security, files, i,
                 logs, analytics, scan_results, storevars, lost, progress, scan,
                 guivars>>
  /\ UNCHANGED sf
  /\ UNCHANGED callvars

\* after the loop: the security summary at the head of the log, and the chart,
\* whose drawing fails because organizer.py never imports plt (a NameError,
\* caught and logged)
FinishRun ==
  /\ pc = "running"
  /\ i > Len(files)
  /\ LET sec_info == analytics.security_scan
         alert == IF enable_security /\ sec_info.infected > 0
                  THEN <<LogEntry("alert", <<>>, <<>>, "")>> ELSE <<>>
         summary == IF enable_security
                    THEN <<LogEntry("security", <<>>, <<>>, "")>> ELSE <<>>
         chart == IF DOMAIN analytics.categories # {}
                  THEN <<LogEntry("chart_failed", <<>>, <<>>, "NameError")>> ELSE <<>>
     IN /\ logs' = summary \o alert \o logs \o chart
        /\ progress' = progress \o FinalProgress(enable_security, sec_info)
  /\ pc' = "done"
  /\ UNCHANGED <<fsvars, HAVE_PYCLAMD, enable_security, files, i, analytics,
                 scan_results, vanished, storevars, lost, scan, guivars>>
  /\ UNCHANGED sf
  /\ UNCHANGED callvars

Next == StartRun \/ Step \/ Vanish \/ FinishRun

Spec == Init /\ [][Next]_vars

\* the state before a run on an installation without the daemon client: the
\* command-line scanner alone yields every kind of verdict
InitLive == Init /\ ~HAVE_PYCLAMD

\* a loop iteration seen on the loop index alone: Step is the one action that
\* advances i during a run, and it can be taken whenever a candidate is left
LoopAdvances == pc = "running" /\ i <= Len(files) /\ i' = i + 1

\* the run with its thread scheduled: a loop iteration that can be made is
\* made (the calls to the scanner and to the filesystem return), and so is
\* the code after the loop
SpecLive == InitLive /\ [][Next]_vars /\ WF_i(LoopAdvances) /\ WF_vars(FinishRun)

(***************************************************************************)
(* The quarantine store used on its own (the quarantine manager of the     *)
(* GUI): calls of move_to_quarantine, restore_from_quarantine and          *)
(* delete_from_quarantine on the working folder, and new files arriving.   *)
(***************************************************************************)
\* the file names a caller can pass
StoreNames == CandidateNames \cup {x_1_exe}

\* str(QUARANTINE_DIR / filename)
QuarantinePath(filename) == <<"q", "u", "a", "r", "a", "n", "t", "i", "n", "e", "/">> \o filename

\* rescan_quarantine scanning without testing that the entry exists
rescan_quarantine_unchecked(filename, q, verdict) ==
  IF verdict.infected THEN [q |-> q, scanned |-> TRUE, shown |-> "infected"]
  ELSE [q |-> q, scanned |-> TRUE, shown |-> "clean"]

\* rescan_quarantine dropping an entry found clean
rescan_quarantine_purge(filename, q, verdict) ==
  IF filename \notin DOMAIN q THEN [q |-> q, scanned |-> FALSE, shown |-> "notfound"]
  ELSE IF verdict.infected THEN [q |-> q, scanned |-> TRUE, shown |-> "infected"]
  ELSE [q |-> Remove(q, filename), scanned |-> TRUE, shown |-> "clean"]

\* FileOrganizerApp.rescan_quarantine for the selected filename, given the
\* verdict scan_file returns: the quarantine afterwards, whether scan_file was
\* called, and the message box shown
rescan_quarantine(filename, q, verdict) ==
  IF filename \notin DOMAIN q THEN [q |-> q, scanned |-> FALSE, shown |-> "notfound"]
  ELSE IF verdict.infected THEN [q |-> q, scanned |-> TRUE, shown |-> "infected"]
  ELSE [q |-> q, scanned |-> TRUE, shown |-> "clean"]

\* move_to_quarantine(folder / name)
MoveIn ==
  /\ pc = "idle"
  /\ ops < MaxOps
  /\ \E name \in StoreNames, fault \in BOOLEAN :
       LET m == move_to_quarantine(name, folder, quarantine, fault)
       IN /\ folder' = m.dir
          /\ quarantine' = m.q
          /\ last' = [op |-> "move_in", arg |-> name, raised |-> m.raised,
                      dest |-> m.dest, ret |-> FALSE, shown |-> ""]
  /\ lost' = lost \cup (Present(folder, catdir, quarantine) \ Present(folder', catdir, quarantine'))
  /\ ops' = ops + 1
  /\ UNCHANGED <<catdir, HAVE_PYCLAMD, runvars, serial, scan, guivars>>
  /\ UNCHANGED sf
  /\ UNCHANGED callvars

\* restore_from_quarantine(filename, folder)
Restore ==
  /\ pc = "idle"
  /\ ops < MaxOps
  /\ \E filename \in StoreNames \cup DOMAIN quarantine, fault \in BOOLEAN :
       LET m == restore_from_quarantine(filename, quarantine, folder, fault)
       IN /\ folder' = m.dir
          /\ quarantine' = m.q
          /\ last' = [op |-> "restore", arg |-> filename, raised |-> m.raised,
                      dest |-> m.dest, ret |-> FALSE, shown |-> ""]
  /\ lost' = lost \cup (Present(folder, catdir, quarantine) \ Present(folder', catdir, quarantine'))
  /\ ops' = ops + 1
  /\ UNCHANGED <<catdir, HAVE_PYCLAMD, runvars, serial, scan, guivars>>
  /\ UNCHANGED sf
  /\ UNCHANGED callvars

\* delete_from_quarantine(filename)
Delete ==
  /\ pc = "idle"
  /\ ops < MaxOps
  /\ \E filename \in StoreNames \cup DOMAIN quarantine, fault \in BOOLEAN :
       LET m == delete_from_quarantine(filename, quarantine, fault)
       IN /\ quarantine' = m.q
          /\ last' = [op |-> "delete", arg |-> filename, raised |-> m.raised,
                      dest |-> <<>>, ret |-> m.ret, shown |-> ""]
  /\ ops' = ops + 1
  /\ UNCHANGED <<folder, catdir, HAVE_PYCLAMD, runvars, serial, lost, scan, guivars>>
  /\ UNCHANGED sf
  /\ UNCHANGED callvars

\* rescan_quarantine() with filename selected in the list
Rescan ==
  /\ pc = "idle"
  /\ ops < MaxOps
  /\ \E filename \in StoreNames \cup DOMAIN quarantine :
       \E verdict \in Verdicts(QuarantinePath(filename)) :
         LET m == rescan_quarantine(filename, quarantine, verdict)
         IN /\ quarantine' = m.q
            /\ last' = [op |-> "rescan", arg |-> filename, raised |-> "", dest |-> <<>>,
                        ret |-> m.scanned, shown |-> m.shown]
  /\ ops' = ops + 1
  /\ UNCHANGED <<folder, catdir, HAVE_PYCLAMD, runvars, serial, lost, scan, guivars>>
  /\ UNCHANGED sf
  /\ UNCHANGED callvars

\* a new file named name arrives in the working folder
Create ==
  /\ pc = "idle"
  /\ ops < MaxOps
  /\ \E name \in CandidateNames \ DOMAIN folder :
       /\ folder' = Put(folder, name, File("created", name, serial + 1))
       /\ last' = [op |-> "create", arg |-> name, raised |-> "", dest |-> <<>>, ret |-> FALSE,
                   shown |-> ""]
  /\ serial' = serial + 1
  /\ ops' = ops + 1
  /\ UNCHANGED <<catdir, quarantine, HAVE_PYCLAMD, runvars, lost, scan, guivars>>
  /\ UNCHANGED sf
  /\ UNCHANGED callvars

NextQ == MoveIn \/ Restore \/ Delete \/ Rescan \/ Create

\* the store is exercised with no category folders under the working folder
InitQ ==
  /\ InitWorld
  /\ gc = NoGc
  /\ mq = NoMq
  /\ scan = NoScan
  /\ sf = NoSf
  /\ catdir = <<>>
  /\ HAVE_PYCLAMD = FALSE

SpecQ == InitQ /\ [][NextQ]_vars

(***************************************************************************)
(* Notions the properties are stated with.                                 *)
(***************************************************************************)
RECURSIVE SumOver(_, _)
\* the sum of f[x] over the x of S
SumOver(f, S) ==
  IF S = {} THEN 0
  ELSE LET x == CHOOSE y \in S : TRUE IN f[x] + SumOver(f, S \ {x})

\* the candidate named f, as a file
Candidate(f) == File("folder", f, 0)

\* the candidates of the run
Candidates == {files[k] : k \in 1..Len(files)}

\* the places <<category folder, name>> of the folders cd where the file c lies
PlacesIn(cd, c) ==
  {p \in UNION {{<<k, n>> : n \in DOMAIN cd[k]} : k \in DOMAIN cd} : cd[p[1]][p[2]] = c}

\* the entries of the directory d holding the file c
EntriesIn(d, c) == {n \in DOMAIN d : d[n] = c}

\* the places <<category folder, name>> where candidate f lies
CategoryPlaces(f) == PlacesIn(catdir, Candidate(f))

\* the quarantine entries holding candidate f
QuarantinePlaces(f) == EntriesIn(quarantine, Candidate(f))

\* candidate f is where it was
InPlace(f) == f \in DOMAIN folder /\ folder[f] = Candidate(f)

\* the log has an entry reporting a failure on f
ErrorLogged(f) ==
  \E k \in 1..Len(logs) : logs[k].kind \in {"error", "infected"} /\ logs[k].name = f

Relocated(f) == Cardinality(CategoryPlaces(f)) = 1

Quarantined(f) == Cardinality(QuarantinePlaces(f)) = 1

Errored(f) == InPlace(f) /\ ErrorLogged(f)

\* the number of the conditions bs that hold
CountTrue(bs) == Cardinality({k \in 1..Len(bs) : bs[k]})

\* C1 as stated: after a run every candidate is in exactly one of the three
\* terminal conditions: relocated to one category folder, held by one
\* quarantine entry, or in place with an error entry in the log.
C1_ExactlyOneTerminalState ==
  pc = "done" =>
    \A f \in Candidates : CountTrue(<<Relocated(f), Quarantined(f), Errored(f)>>) = 1

\* C1 as amended: the same for every candidate that was still in the folder when
\* the loop reached it; a candidate another process deleted before its turn is in
\* none of the three places, and the log has an error entry for it.
C1_ExactlyOneTerminalStateUnlessVanished ==
  pc = "done" =>
    \A f \in Candidates :
      IF f \in vanished
      THEN /\ ~Relocated(f) /\ ~Quarantined(f) /\ ~InPlace(f)
           /\ ErrorLogged(f)
      ELSE CountTrue(<<Relocated(f), Quarantined(f), Errored(f)>>) = 1

\* a finished run of two candidates: one reached a terminal condition, the
\* other was deleted before its turn
C1_Witness ==
  /\ pc = "done"
  /\ Len(files) = 2
  /\ \E f \in Candidates : Errored(f) \/ Quarantined(f) \/ Relocated(f)
  /\ \E f \in Candidates : f \in vanished

sec == analytics.security_scan

\* the verdicts of the run that say infected
InfectedVerdicts == {k \in 1..Len(scan_results) : scan_results[k].infected}

\* the candidates the run moved into the quarantine
QuarantinedCandidates == {f \in Candidates : QuarantinePlaces(f) # {}}

\* the candidates the run moved into category folders
RelocatedCandidates == {f \in Candidates : CategoryPlaces(f) # {}}

\* C2 as stated: at the end of a run with security enabled,
\* scanned = infected + clean.
C2_ScannedIsInfectedPlusClean ==
  (pc = "done" /\ enable_security) => sec.scanned = sec.infected + sec.clean

\* C3: with security disabled and no filesystem error, after the run every
\* candidate lies in the folder of its category under its own name, each
\* category count is the number of candidates of that category, and total_files
\* is the number of candidates; a.jpg goes to Images, b.txt to Documents.
C3_DisabledSecurityOrganizesAll ==
  (/\ pc = "done"
   /\ ~enable_security
   /\ vanished = {}
   /\ \A k \in 1..Len(logs) : logs[k].kind # "error")
  =>
  /\ \A f \in Candidates :
       /\ CategoryPlaces(f) = {<<get_category(Suffix(f)), f>>}
       /\ f \notin DOMAIN folder
  /\ a_jpg \in Candidates => <<Images, a_jpg>> \in CategoryPlaces(a_jpg)
  /\ b_txt \in Candidates => <<Documents, b_txt>> \in CategoryPlaces(b_txt)
  /\ x_exe \in Candidates => <<Others, x_exe>> \in CategoryPlaces(x_exe)
  /\ DOMAIN analytics.categories = {get_category(Suffix(f)) : f \in Candidates}
  /\ \A c \in DOMAIN analytics.categories :
       analytics.categories[c] =
         Cardinality({f \in Candidates : get_category(Suffix(f)) = c})
  /\ analytics.total_files = Cardinality(RelocatedCandidates)

\* two candidates of different categories organized with security disabled
C3_Witness ==
  /\ pc = "done"
  /\ ~enable_security
  /\ \A k \in 1..Len(logs) : logs[k].kind # "error"
  /\ Candidates = {a_jpg, b_txt}
  /\ analytics.categories = (Images :> 1) @@ (Documents :> 1)
  /\ analytics.total_files = 2

\* the step just taken processed a candidate whose verdict was infected
InfectedStep ==
  /\ Len(scan_results') = Len(scan_results) + 1
  /\ scan_results'[Len(scan_results')].infected

\* C4: a candidate whose verdict is infected is never in a category folder, and
\* the step that handles it changes neither the category counts nor
\* total_size_bytes nor any category folder, whether or not its quarantine move
\* succeeds.
C4_InfectedNeverOrganized ==
  /\ [](\A k \in InfectedVerdicts : CategoryPlaces(scan_results[k].name) = {})
  /\ [][InfectedStep =>
          /\ analytics'.categories = analytics.categories
          /\ analytics'.total_size_bytes = analytics.total_size_bytes
          /\ catdir' = catdir]_vars

\* an infected candidate whose quarantine move failed, after the run
C4_Witness ==
  /\ pc = "done"
  /\ \E k \in InfectedVerdicts :
       /\ InPlace(scan_results[k].name)
       /\ \E j \in 1..Len(logs) :
            logs[j].kind = "infected" /\ logs[j].name = scan_results[k].name

\* C5 as stated: at the end of a run infected is the number of infected verdicts
\* and quarantined is the number of successful quarantine moves.
C5_InfectedCountsVerdicts ==
  pc = "done" =>
    /\ sec.infected = Cardinality(InfectedVerdicts)
    /\ sec.quarantined = Cardinality(QuarantinedCandidates)

\* C6: quarantined <= infected in every state; the four security counters are
\* zero when a run starts and no step decreases any of them.
C6_CountersMonotone ==
  /\ [](sec.quarantined <= sec.infected)
  /\ [][(pc = "idle" /\ pc' # "idle") =>
          /\ analytics'.security_scan.scanned = 0
          /\ analytics'.security_scan.infected = 0
          /\ analytics'.security_scan.quarantined = 0
          /\ analytics'.security_scan.clean = 0]_vars
  /\ [][/\ analytics'.security_scan.scanned >= sec.scanned
        /\ analytics'.security_scan.infected >= sec.infected
        /\ analytics'.security_scan.quarantined >= sec.quarantined
        /\ analytics'.security_scan.clean >= sec.clean]_vars

\* a run that has quarantined one file and counted a clean one
C6_Witness ==
  /\ pc = "done"
  /\ sec.quarantined = 1
  /\ sec.infected = 1
  /\ sec.clean = 1

\* the step just taken was a loop iteration that neither relocated nor
\* quarantined its candidate
FailedStep ==
  /\ pc = "running"
  /\ i' = i + 1
  /\ PlacesIn(catdir', Candidate(files[i])) = {}
  /\ EntriesIn(quarantine', Candidate(files[i])) = {}

\* the entries the step just taken appended to the log
Appended == SubSeq(logs', Len(logs) + 1, Len(logs'))

\* C7: a loop iteration that fails on its candidate appends exactly one failure
\* entry naming it (after the scan's entry, if any) and the loop goes on: the
\* run is still in its loop with the index advanced by one, and at the return
\* every candidate has been visited and has a log entry.
C7_FailureIsLoggedAndIsolated ==
  /\ [][FailedStep =>
          /\ Len(logs') >= Len(logs) + 1
          /\ SubSeq(logs', 1, Len(logs)) = logs
          /\ Cardinality({k \in 1..Len(Appended) :
                            Appended[k].kind \in {"error", "infected"}}) = 1
          /\ Appended[Len(Appended)].kind \in {"error", "infected"}
          /\ Appended[Len(Appended)].name = files[i]
          /\ \A k \in 1..(Len(Appended) - 1) :
               Appended[k].kind = "passed" /\ Appended[k].name = files[i]
          /\ Len(Appended) <= 2
          /\ pc' = "running"]_vars
  /\ []((pc = "done" /\ files # <<>>) =>
          /\ i = Len(files) + 1
          /\ \A f \in Candidates : \E k \in 1..Len(logs) : logs[k].name = f)

\* a run that returned after its first candidate failed and its second was moved
C7_Witness ==
  /\ pc = "done"
  /\ Len(files) = 2
  /\ Errored(files[1])
  /\ Relocated(files[2])

\* C8 as stated: at the end of a run the category counts add up to the number of
\* candidates moved into category folders, and total_size_bytes is the sum of
\* their sizes.
C8_AnalyticsCountOnlyMoved ==
  pc = "done" =>
    /\ SumOver(analytics.categories, DOMAIN analytics.categories)
         = Cardinality(RelocatedCandidates)
    /\ analytics.total_size_bytes
         = SumOver([f \in RelocatedCandidates |-> Candidate(f).size], RelocatedCandidates)

\* C9 as stated: no move of the program replaces a file that was already there.
C9_NoSilentOverwrite == lost = {}

\* the name move_to_quarantine gives the N-th renaming of name
Numbered(name, N) == Stem(name) \o <<"_">> \o DecStr(N) \o Suffix(name)

\* the step just taken was a move_to_quarantine call that returned
MoveInReturned ==
  /\ ops' = ops + 1
  /\ last'.op = "move_in"
  /\ last'.raised = ""

\* C10: a move_to_quarantine call that returns gives the entry the source's
\* name if that name is free, else the name numbered with the smallest N >= 1
\* that is free; it leaves every existing entry as it was and adds the one entry,
\* which list_quarantine then returns; and no two entries hold the same file.
C10_MoveInCollisionFree ==
  /\ [][MoveInReturned =>
          LET name == last'.arg
              dest == last'.dest
              taken == DOMAIN quarantine
          IN /\ dest \notin taken
             /\ name \notin taken => dest = name
             /\ name \in taken =>
                  \E N \in 1..(Cardinality(taken) + 1) :
                    /\ dest = Numbered(name, N)
                    /\ \A M \in 1..(N - 1) : Numbered(name, M) \in taken
             /\ DOMAIN quarantine' = taken \cup {dest}
             /\ \A n \in taken : quarantine'[n] = quarantine[n]
             /\ quarantine'[dest] = folder[name]
             /\ name \notin DOMAIN folder'
             /\ list_quarantine(quarantine') = list_quarantine(quarantine) \cup {dest}]_vars
  /\ [](\A m, n \in DOMAIN quarantine : quarantine[m] = quarantine[n] => m = n)

\* a third file named x.exe moved in next to x.exe and x_1.exe
C10_Witness ==
  /\ last.op = "move_in"
  /\ last.arg = x_exe
  /\ last.dest = Numbered(x_exe, 2)
  /\ {x_exe, x_1_exe, Numbered(x_exe, 2)} \subseteq list_quarantine(quarantine)
  /\ Cardinality(Contents(quarantine)) = Cardinality(DOMAIN quarantine)

(***************************************************************************)
(* The scanner adapter on its own: one call of scan_file, over the paths   *)
(* it can be given and everything the two engines can do.                  *)
(***************************************************************************)
\* a file whose name holds a colon
x_colon_exe == <<"x", ":", "1", ".", "e", "x", "e">>

\* a file whose name holds the letters of the clean tag
OK_exe == <<"O", "K", ".", "e", "x", "e">>

ScanPaths == {PathOf(x_exe), PathOf(a_jpg), PathOf(x_colon_exe), PathOf(OK_exe)}

InitScan ==
  /\ InitWorld
  /\ gc = NoGc
  /\ mq = NoMq
  /\ sf = NoSf
  /\ folder = <<>>
  /\ catdir = <<>>
  /\ quarantine = <<>>
  /\ \E path \in ScanPaths, daemon \in DaemonOutcomes, cli \in CliOutcomes :
       scan = [NoScan EXCEPT !.path = path, !.daemon = daemon, !.cli = cli]

\* scan_file(scan.path)
ScanFile ==
  /\ ~scan.done
  /\ scan' = [scan EXCEPT
                !.verdict = scan_file(scan.path, HAVE_PYCLAMD, scan.daemon, scan.cli),
                !.done = TRUE]
  /\ UNCHANGED <<fsvars, HAVE_PYCLAMD, runvars, storevars, lost, guivars>>
  /\ UNCHANGED sf
  /\ UNCHANGED callvars

NextScan == ScanFile

SpecScan == InitScan /\ [][NextScan]_vars

(***************************************************************************)
(* Properties of the scanner adapter.                                      *)
(***************************************************************************)
\* the daemon was asked and did not answer
DaemonFailed == HAVE_PYCLAMD /\ DaemonRaises(scan.daemon) # ""

\* the verdict is the one the command-line fallback gives for the same file
IsFallbackVerdict ==
  LET fb == clamscan_fallback(scan.path, scan.cli)
  IN scan.verdict.infected = fb[1] /\ scan.verdict.detail = fb[2]

\* the verdict is one the daemon path builds
IsDaemonVerdict ==
  \/ scan.verdict.detail = <<"O", "K", " ", "(", "c", "l", "a", "m", "d", ")">>
  \/ scan.verdict.detail = Signature \o <<" ", "(", "F", "O", "U", "N", "D", ")">>

\* C11: the daemon's verdict is used only when the daemon answers; when the
\* client is installed and the daemon raises, scan_file returns the verdict of
\* the clamscan fallback.
C11_FallsBackWhenDaemonFails ==
  scan.done =>
    /\ DaemonFailed => IsFallbackVerdict
    /\ IsDaemonVerdict => HAVE_PYCLAMD /\ DaemonRaises(scan.daemon) = ""

\* no engine examined the file: the daemon path was taken and the daemon did
\* not answer, or the command-line path was taken and clamscan is not installed
NoEngineExamined ==
  \/ DaemonFailed
  \/ ~HAVE_PYCLAMD /\ scan.cli = "notinstalled"

CleanConfirmations == {<<"O", "K">>, <<"O", "K", " ", "(", "c", "l", "a", "m", "d", ")">>}

\* C12: when no engine examined the file, the detail of the verdict is none of
\* the clean confirmations "OK" and "OK (clamd)".
C12_AbsenceNotReportedClean ==
  scan.done /\ NoEngineExamined => scan.verdict.detail \notin CleanConfirmations

\* the strategy scan_file used failed: the daemon raised, or clamscan could not
\* be run
StrategyFailed ==
  \/ DaemonFailed
  \/ ~HAVE_PYCLAMD /\ CliRaises(scan.cli) # ""

\* C13: scan_file never raises; when the strategy it used failed, the verdict
\* it returns has infected = false.
C13_ScanFileNeverRaises ==
  scan.done =>
    /\ scan.verdict.raised = ""
    /\ StrategyFailed => ~scan.verdict.infected

\* clamscan could not be started for a reason other than its absence, and
\* scan_file returned the verdict that reports the error
C13_Witness ==
  /\ scan.done
  /\ ~HAVE_PYCLAMD
  /\ scan.cli = "error"
  /\ scan.verdict.raised = ""
  /\ ~scan.verdict.infected
  /\ scan.verdict.detail = <<"c", "l", "a", "m", "s", "c", "a", "n", "-", "e", "r", "r", "o", "r", ":", " ", "d", "e", "n", "i", "e", "d">>

\* C14 as stated: a verdict with infected = false carries the tag "OK" in its
\* detail, on every path.
C14_CleanDetailCarriesOK ==
  scan.done /\ ~scan.verdict.infected => Contains(scan.verdict.detail, <<"O", "K">>)

\* C14: a verdict with infected = false has the detail "OK (clamd)" on the
\* daemon path and "OK" when the clamscan output contains "OK"; it has the
\* detail "clamscan-not-installed" when clamscan is absent, "clamscan-error: "
\* and the exception text when clamscan cannot be run, and the trimmed output,
\* without "OK", when the output has neither "OK" nor "FOUND".
C14_CleanDetailByPath ==
  scan.done /\ ~scan.verdict.infected =>
    LET detail == scan.verdict.detail
        out == ClamscanOutput(scan.path, scan.cli)
    IN IF HAVE_PYCLAMD THEN detail = <<"O", "K", " ", "(", "c", "l", "a", "m", "d", ")">>
       ELSE IF scan.cli = "notinstalled" THEN detail = <<"c", "l", "a", "m", "s", "c", "a", "n", "-", "n", "o", "t", "-", "i", "n", "s", "t", "a", "l", "l", "e", "d">>
       ELSE IF scan.cli = "error"
       THEN /\ Len(detail) >= 16
            /\ SubSeq(detail, 1, 16) = <<"c", "l", "a", "m", "s", "c", "a", "n", "-", "e", "r", "r", "o", "r", ":", " ">>
       ELSE IF Contains(out, <<"O", "K">>) THEN detail = <<"O", "K">>
       ELSE /\ detail = Strip(out)
            /\ ~Contains(detail, <<"O", "K">>)

\* clamscan completed with an output that has neither "OK" nor "FOUND", and
\* the verdict is clean with that output as its detail
C14_Witness ==
  /\ scan.done
  /\ ~HAVE_PYCLAMD
  /\ scan.cli = "other"
  /\ ~scan.verdict.infected
  /\ scan.verdict.detail = Strip(ClamscanOutput(scan.path, scan.cli))
  /\ ~Contains(scan.verdict.detail, <<"O", "K">>)

\* the text of s after its first colon
AfterFirstColon(s) == SubSeq(s, Find(s, ":") + 1, Len(s))

\* C15: the fallback reads the combined output in this order: "OK" in it gives
\* clean with detail "OK"; else "FOUND" in it gives infected with the trimmed
\* text after the first colon (the trimmed output when it has no colon) as
\* detail; else clean with the trimmed output as detail.
C15_FallbackParseOrder ==
  scan.done /\ ~HAVE_PYCLAMD /\ CliRaises(scan.cli) = "" =>
    LET out == ClamscanOutput(scan.path, scan.cli)
        v == scan.verdict
    IN IF Contains(out, <<"O", "K">>) THEN ~v.infected /\ v.detail = <<"O", "K">>
       ELSE IF Contains(out, <<"F", "O", "U", "N", "D">>)
       THEN /\ v.infected
            /\ v.detail = IF Find(out, ":") # 0 THEN Strip(AfterFirstColon(out))
                          ELSE Strip(out)
       ELSE ~v.infected /\ v.detail = Strip(out)

(***************************************************************************)
(* Properties of the progress calls of a run.                              *)
(***************************************************************************)
\* C16: the percents passed to the progress callback in one run never
\* decrease, and each is an integer in 0..100.
C16_ProgressMonotone ==
  \A k \in 1..Len(progress) :
    /\ progress[k].pct \in 0..100
    /\ k > 1 => progress[k - 1].pct <= progress[k].pct

\* the positions in progress of the calls with this message
EventsOf(kind) == {k \in 1..Len(progress) : progress[k].kind = kind}

\* C17: a run over a non-empty folder ends with one "Completed" call at 100%
\* after every per-candidate call, followed by exactly one threat call when a
\* candidate was quarantined in the run and by none otherwise; no call
\* follows once the run has returned.
C17_FinalProgress ==
  /\ [](pc = "done" /\ files # <<>> =>
          LET n == Len(progress)
              threats == IF QuarantinedCandidates # {} THEN 1 ELSE 0
              completed == n - threats
          IN /\ completed >= 1
             /\ EventsOf("completed") = {completed}
             /\ progress[completed].pct = 100
             /\ EventsOf("threats") = (completed + 1)..n
             /\ \A k \in EventsOf("threats") : progress[k].pct = 100
             /\ \A k \in 1..(completed - 1) : progress[k].kind \in {"scanning", "organizing"})
  /\ [][pc = "done" => progress' = progress]_vars

\* a finished run that quarantined a candidate and announced it last
C17_Witness ==
  /\ pc = "done"
  /\ QuarantinedCandidates # {}
  /\ Len(progress) >= 3
  /\ progress[Len(progress)].kind = "threats"
  /\ progress[Len(progress) - 1].kind = "completed"

\* C18: a run over a folder with no regular files returns an empty log and
\* analytics with every count zero and no category, makes one progress call,
\* at 100%, and changes nothing in the folder, its sub-folders or the
\* quarantine.
C18_EmptyFolderRun ==
  /\ [][pc = "idle" /\ DOMAIN folder = {} /\ pc' # "idle" =>
          /\ pc' = "done"
          /\ logs' = <<>>
          /\ analytics'.total_files = 0
          /\ analytics'.total_size_bytes = 0
          /\ DOMAIN analytics'.categories = {}
          /\ analytics'.security_scan =
               [scanned |-> 0, infected |-> 0, quarantined |-> 0, clean |-> 0]
          /\ Len(progress') = 1
          /\ progress'[1].pct = 100
          /\ UNCHANGED fsvars]_vars
  /\ [][pc = "done" /\ files = <<>> => UNCHANGED <<fsvars, logs, analytics, progress>>]_vars

\* a run with security enabled over an empty folder has returned
C18_Witness ==
  /\ pc = "done"
  /\ files = <<>>
  /\ DOMAIN folder = {}
  /\ enable_security
  /\ logs = <<>>
  /\ progress = <<ProgressEvent(100, "nofiles")>>

(***************************************************************************)
(* main.py: the window.  Each click on Start Organizing or Scan Folder     *)
(* starts a thread that runs organize_files or scan_folder on the chosen   *)
(* folder; a thread ends when its call returns.                            *)
(***************************************************************************)
\* how many threads the window starts
MaxWorkers == 3

\* the folders QFileDialog.getExistingDirectory can return
GuiFolders == {"/t", "/u"}

\* a thread started by the window: what it runs, on which folder
Worker(kind, target) == [kind |-> kind, target |-> target, state |-> "running"]

\* browse_folder: the dialog returns a folder, or "" when it is cancelled
browse_folder ==
  /\ \E chosen \in GuiFolders \cup {""} :
       folder_path' = IF chosen # "" THEN chosen ELSE folder_path
  /\ UNCHANGED <<fsvars, HAVE_PYCLAMD, runvars, storevars, lost, scan,
                 security_folder_path, workers>>
  /\ UNCHANGED sf
  /\ UNCHANGED callvars

\* browse_security_folder
browse_security_folder ==
  /\ \E chosen \in GuiFolders \cup {""} :
       security_folder_path' = IF chosen # "" THEN chosen ELSE security_folder_path
  /\ UNCHANGED <<fsvars, HAVE_PYCLAMD, runvars, storevars, lost, scan,
                 folder_path, workers>>
  /\ UNCHANGED sf
  /\ UNCHANGED callvars

\* start_organize: a warning when no folder is chosen, else a new thread
\* running organize_files(self.folder_path, self.emit_progress)
start_organize ==
  /\ Len(workers) < MaxWorkers
  /\ workers' = IF folder_path = "" THEN workers
                ELSE Append(workers, Worker("organize", folder_path))
  /\ UNCHANGED <<fsvars, HAVE_PYCLAMD, runvars, storevars, lost, scan,
                 folder_path, security_folder_path>>
  /\ UNCHANGED sf
  /\ UNCHANGED callvars

\* start_security_scan: a warning when no folder is chosen, else a new thread
\* running security.scan_folder(self.security_folder_path, ...)
start_security_scan ==
  /\ Len(workers) < MaxWorkers
  /\ workers' = IF security_folder_path = "" THEN workers
                ELSE Append(workers, Worker("scan", security_folder_path))
  /\ UNCHANGED <<fsvars, HAVE_PYCLAMD, runvars, storevars, lost, scan,
                 folder_path, security_folder_path>>
  /\ UNCHANGED sf
  /\ UNCHANGED callvars

\* the call a thread runs returns and the thread ends
WorkerReturns ==
  /\ \E k \in 1..Len(workers) :
       /\ workers[k].state = "running"
       /\ workers' = [workers EXCEPT ![k].state = "finished"]
  /\ UNCHANGED <<fsvars, HAVE_PYCLAMD, runvars, storevars, lost, scan,
                 folder_path, security_folder_path>>
  /\ UNCHANGED sf
  /\ UNCHANGED callvars

NextGui ==
  \/ browse_folder
  \/ browse_security_folder
  \/ start_organize
  \/ start_security_scan
  \/ WorkerReturns

InitGui ==
  /\ InitWorld
  /\ gc = NoGc
  /\ mq = NoMq
  /\ folder = <<>>
  /\ catdir = <<>>
  /\ quarantine = <<>>
  /\ HAVE_PYCLAMD = FALSE
  /\ scan = NoScan
  /\ sf = NoSf

SpecGui == InitGui /\ [][NextGui]_vars

\* the threads whose call has not returned
ActiveWorkers == {k \in 1..Len(workers) : workers[k].state = "running"}

\* C19: at most one worker run is active at any time: no two on the same
\* target folder, and no two at all, since every run uses the one quarantine
\* root.
C19_SingleRunAtATime ==
  /\ Cardinality(ActiveWorkers) <= 1
  /\ \A a, b \in ActiveWorkers : workers[a].target = workers[b].target => a = b

\* the step just taken is a restore_from_quarantine call on an entry of the
\* quarantine
RestoreOfEntry ==
  /\ ops' = ops + 1
  /\ last'.op = "restore"
  /\ last'.arg \in DOMAIN quarantine

\* C20: restore_from_quarantine(filename, dest_folder) on an entry of the
\* quarantine, when it returns, has removed that entry (list_quarantine no
\* longer returns it), has put the file at dest_folder/filename, returns that
\* path, and leaves every other entry as it was; it raises only when the move
\* is refused, and then changes nothing.
C20_RestoreMovesEntryOut ==
  [][RestoreOfEntry =>
       LET filename == last'.arg
       IN IF last'.raised = ""
          THEN /\ filename \notin list_quarantine(quarantine')
               /\ filename \in DOMAIN folder'
               /\ folder'[filename] = quarantine[filename]
               /\ last'.dest = filename
               /\ DOMAIN quarantine' = DOMAIN quarantine \ {filename}
               /\ \A n \in DOMAIN quarantine' : quarantine'[n] = quarantine[n]
          ELSE /\ last'.raised = "PermissionError"
               /\ UNCHANGED <<folder, quarantine>>]_vars

\* x.exe was restored to the folder while x_1.exe stayed in the quarantine
C20_Witness ==
  /\ last.op = "restore"
  /\ last.raised = ""
  /\ last.arg = x_exe
  /\ x_exe \in DOMAIN folder
  /\ folder[x_exe].origin = "quarantine"
  /\ DOMAIN quarantine = {x_1_exe}

(***************************************************************************)
(* Properties of restore, delete and rescan.                               *)
(***************************************************************************)
\* the step just taken is a call of the store operation op
StoreCall(op) == ops' = ops + 1 /\ last'.op = op

\* C21: move_to_quarantine(p) followed by restore_from_quarantine of the
\* returned entry name into the folder of p puts the file back at p, also
\* when move-in numbered the entry.
C21_RestoreRoundTrip ==
  [][/\ last.op = "move_in"
     /\ last.raised = ""
     /\ StoreCall("restore")
     /\ last'.arg = last.dest
     /\ last'.raised = ""
     => /\ last.arg \in DOMAIN folder'
        /\ folder'[last.arg] = quarantine[last.dest]]_vars

\* C22: move_to_quarantine on a source that does not exist and
\* restore_from_quarantine on a filename absent from the quarantine raise
\* FileNotFoundError and leave the quarantine and the folder unchanged.
C22_MissingSourceNotFound ==
  [][/\ StoreCall("move_in") /\ last'.arg \notin DOMAIN folder =>
          last'.raised = "FileNotFoundError" /\ UNCHANGED <<folder, quarantine>>
     /\ StoreCall("restore") /\ last'.arg \notin DOMAIN quarantine =>
          last'.raised = "FileNotFoundError" /\ UNCHANGED <<folder, quarantine>>]_vars

\* a restore of x.exe was refused as not found while the quarantine held
\* another entry
C22_Witness ==
  /\ last.op = "restore"
  /\ last.arg = x_exe
  /\ last.raised = "FileNotFoundError"
  /\ x_exe \notin DOMAIN quarantine
  /\ quarantine # <<>>

\* C23: delete_from_quarantine on a present entry removes exactly that entry
\* and returns true (or raises when the filesystem refuses, changing nothing);
\* on an absent filename it returns false without raising and changes
\* nothing; a second delete of the same filename returns false and leaves the
\* state of the first.
C23_DeleteIdempotent ==
  [][StoreCall("delete") =>
       LET f == last'.arg
       IN /\ UNCHANGED <<folder, catdir>>
          /\ f \in DOMAIN quarantine =>
               IF last'.raised = ""
               THEN last'.ret /\ quarantine' = Remove(quarantine, f)
               ELSE last'.raised = "PermissionError" /\ quarantine' = quarantine
          /\ f \notin DOMAIN quarantine =>
               last'.raised = "" /\ ~last'.ret /\ quarantine' = quarantine
          /\ last.op = "delete" /\ last.arg = f /\ last.ret =>
               last'.raised = "" /\ ~last'.ret /\ quarantine' = quarantine]_vars

\* the files that came from the quarantine and are now in the folder
RestoredFiles == {n \in DOMAIN folder : folder[n].origin = "quarantine"}

\* x.exe was deleted from a quarantine holding x.exe and x_1.exe, and a
\* second delete of x.exe returned false
C23_Witness ==
  /\ last.op = "delete"
  /\ last.arg = x_exe
  /\ last.raised = ""
  /\ ~last.ret
  /\ DOMAIN quarantine = {x_1_exe}
  /\ quarantine[x_1_exe].origin = "quarantine"
  /\ RestoredFiles = {}
  /\ ops = 2

\* C24 as stated: restore, delete and rescan on a filename that is not in the
\* quarantine each fail with NotFound.
C24_UnknownFilenameNotFound ==
  [][/\ StoreCall("restore") /\ last'.arg \notin DOMAIN quarantine =>
          last'.raised = "FileNotFoundError"
     /\ StoreCall("delete") /\ last'.arg \notin DOMAIN quarantine =>
          last'.raised = "FileNotFoundError"
     /\ StoreCall("rescan") /\ last'.arg \notin DOMAIN quarantine =>
          last'.shown = "notfound"]_vars

\* C24: on a filename that is not in the quarantine, restore raises
\* FileNotFoundError, delete returns false without raising, and rescan shows
\* "File not found in quarantine" without scanning; each leaves the folder
\* and the quarantine unchanged.  A delete of the name just restored returns
\* false.
C24_UnknownFilenameByOperation ==
  [][/\ StoreCall("restore") /\ last'.arg \notin DOMAIN quarantine =>
          last'.raised = "FileNotFoundError" /\ UNCHANGED <<folder, quarantine>>
     /\ StoreCall("delete") /\ last'.arg \notin DOMAIN quarantine =>
          last'.raised = "" /\ ~last'.ret /\ UNCHANGED <<folder, quarantine>>
     /\ StoreCall("rescan") /\ last'.arg \notin DOMAIN quarantine =>
          /\ last'.shown = "notfound"
          /\ ~last'.ret
          /\ last'.raised = ""
          /\ UNCHANGED <<folder, quarantine>>
     /\ /\ last.op = "restore"
        /\ last.raised = ""
        /\ StoreCall("delete")
        /\ last'.arg = last.arg
        => last'.raised = "" /\ ~last'.ret /\ UNCHANGED <<folder, quarantine>>]_vars

\* x.exe was restored to the folder and a delete of x.exe then returned false
C24_Witness ==
  /\ last.op = "delete"
  /\ last.arg = x_exe
  /\ last.raised = ""
  /\ ~last.ret
  /\ x_exe \in RestoredFiles
  /\ x_exe \notin DOMAIN quarantine
  /\ ops = 2

\* C25: a rescan leaves the quarantine as it was, whatever the verdict: the
\* same entries under the same names holding the same files, and nothing
\* moved to or from the folder.
C25_RescanLeavesQuarantine ==
  [][StoreCall("rescan") =>
       /\ UNCHANGED <<folder, catdir, quarantine>>
       /\ last'.raised = ""
       /\ last'.arg \in DOMAIN quarantine => last'.ret /\ last'.shown \in {"infected", "clean"}]_vars

\* an entry was rescanned and found clean, and it is still in the quarantine
C25_Witness ==
  /\ last.op = "rescan"
  /\ last.shown = "clean"
  /\ last.ret
  /\ last.arg \in DOMAIN quarantine

(***************************************************************************)
(* security.py: scan_folder, verify_mime and the email report.             *)
(***************************************************************************)
\* what magic.from_file does on an existing file: raises, or returns a type
MimeOutcomes == {"raises", "image", "text"}

\* the content type magic.from_file returns
MimeOf(detection) == IF detection = "image" THEN <<"i", "m", "a", "g", "e", "/", "j", "p", "e", "g">> ELSE <<"t", "e", "x", "t", "/", "p", "l", "a", "i", "n">>

\* verify_mime(path, expected_mime_prefix): mime is <<>> for None, match is
\* "None", "True" or "False"; exists tells whether the path is still there
\* (magic.from_file raises on a missing file)
verify_mime(exists, expected_mime_prefix, have_magic, detection) ==
  IF ~have_magic THEN [mime |-> <<>>, match |-> "None", detail |-> "python-magic not installed"]
  ELSE IF ~exists \/ detection = "raises"
       THEN [mime |-> <<>>, match |-> "False", detail |-> "magic-error"]
       ELSE LET mime == MimeOf(detection)
            IN [mime |-> mime,
                match |-> IF expected_mime_prefix = <<>> THEN "None"
                          ELSE IF Contains(mime, expected_mime_prefix) THEN "True"
                          ELSE "False",
                detail |-> "OK"]

\* the expected_mime_map arguments: None, or a map from extension to prefix
ExpectedMimeMaps ==
  { <<>>,
    [e \in {<<".", "j", "p", "g">>, <<".", "e", "x", "e">>} |-> IF e = <<".", "j", "p", "g">> THEN <<"i", "m", "a", "g", "e", "/">> ELSE <<"a", "p", "p", "l", "i", "c", "a", "t", "i", "o", "n", "/">>] }

\* EMAIL_CONFIG.get("always_send", False): no code sets the key
AlwaysSend == FALSE

\* int(i / total * 100)
ScanPercent(k, total) == (100 * k) \div total

\* the body of the for loop of scan_folder for file f: the scan, the
\* quarantine of an infected file, then the type check and the quarantine of a
\* mismatch when the map has the file's extension
ScanFolderFile(f, st, verdict, fault1, fault2, detection) ==
  LET m1 == move_to_quarantine(f, st.folder, st.quarantine, fault1)
      dir1 == IF verdict.infected /\ m1.raised = "" THEN m1.dir ELSE st.folder
      q1 == IF verdict.infected /\ m1.raised = "" THEN m1.q ELSE st.quarantine
      s == [name |-> f, infected |-> verdict.infected,
            quarantined |-> IF ~verdict.infected THEN ""
                            ELSE IF m1.raised = "" THEN "to" ELSE "error"]
      ext == Lower(Suffix(f))
      map == st.expected_mime_map
      expected == IF map # <<>> /\ ext \in DOMAIN map THEN map[ext] ELSE <<>>
      m == verify_mime(f \in DOMAIN dir1, expected, st.have_magic, detection)
      m2 == move_to_quarantine(f, dir1, q1, fault2)
      mismatch == expected # <<>> /\ m.match = "False"
      record == [name |-> f, mime |-> m.mime, match |-> m.match,
                 quarantined |-> IF ~mismatch THEN ""
                                 ELSE IF m2.raised = "" THEN "to" ELSE "error"]
  IN [st EXCEPT
        !.folder = IF mismatch /\ m2.raised = "" THEN m2.dir ELSE dir1,
        !.quarantine = IF mismatch /\ m2.raised = "" THEN m2.q ELSE q1,
        !.scan_results = Append(@, s),
        !.mime_results = IF expected # <<>> THEN Append(@, record) ELSE @]

\* len([r for r in scan_results if r.get("infected")])
CountInfected(rs) == Cardinality({k \in 1..Len(rs) : rs[k].infected})

\* len([r for r in scan_results if not r.get('infected')])
CountClean(rs) == Cardinality({k \in 1..Len(rs) : ~rs[k].infected})

\* len([m for m in mime_results if m.get("match") is False])
CountMismatched(ms) == Cardinality({k \in 1..Len(ms) : ms[k].match = "False"})

\* send_scan_report with the alert subject also for a type mismatch
send_scan_report_any(results, mime_checks) ==
  LET infected_count == CountInfected(results)
      mismatched == CountMismatched(mime_checks)
  IN [subject |-> IF infected_count + mismatched > 0 THEN "alert" ELSE "clear",
      threat_section |-> infected_count > 0,
      clear_line |-> infected_count = 0,
      mismatch_section |-> mismatched > 0,
      scanned |-> Len(results),
      threats |-> infected_count,
      suspicious |-> mismatched,
      clean |-> CountClean(results)]

\* send_scan_report: the subject and the body it composes
send_scan_report(results, mime_checks) ==
  LET infected_count == CountInfected(results)
      mismatched == CountMismatched(mime_checks)
  IN [subject |-> IF infected_count > 0 THEN "alert" ELSE "clear",
      threat_section |-> infected_count > 0,
      clear_line |-> infected_count = 0,
      mismatch_section |-> mismatched > 0,
      scanned |-> Len(results),
      threats |-> infected_count,
      suspicious |-> mismatched,
      clean |-> CountClean(results)]

\* send_email_notification: "skipped" when disabled or not configured, else
\* "sent", or "failed" when the SMTP exchange raises
send_email_notification(enabled, configured, smtp_ok) ==
  IF ~enabled THEN "skipped"
  ELSE IF ~configured THEN "skipped"
  ELSE IF smtp_ok THEN "sent" ELSE "failed"

\* scan_folder(folder, expected_mime_map, progress_callback) up to the loop
StartScan ==
  /\ sf.pc = "idle"
  /\ \E order \in Orders(DOMAIN folder), map \in ExpectedMimeMaps :
       sf' = [sf EXCEPT !.pc = "running", !.files = order, !.i = 1,
                        !.expected_mime_map = map]
  /\ UNCHANGED <<fsvars, HAVE_PYCLAMD, runvars, storevars, lost, scan, guivars>>
  /\ UNCHANGED callvars

\* one iteration of the loop of scan_folder
ScanStep ==
  /\ sf.pc = "running"
  /\ sf.i <= Len(sf.files)
  /\ \E verdict \in Verdicts(PathOf(sf.files[sf.i])), fault1 \in BOOLEAN,
        fault2 \in BOOLEAN, detection \in MimeOutcomes :
       LET f == sf.files[sf.i]
           st == ScanFolderFile(f,
                   [folder |-> folder, quarantine |-> quarantine,
                    expected_mime_map |-> sf.expected_mime_map,
                    have_magic |-> sf.have_magic,
                    scan_results |-> sf.scan_results,
                    mime_results |-> sf.mime_results],
                   verdict, fault1, fault2, detection)
       IN /\ folder' = st.folder
          /\ quarantine' = st.quarantine
          /\ sf' = [sf EXCEPT
                      !.scan_results = st.scan_results,
                      !.mime_results = st.mime_results,
                      !.progress = Append(@, ScanPercent(sf.i, Len(sf.files))),
                      !.i = @ + 1]
  /\ lost' = lost \cup (Present(folder, catdir, quarantine) \ Present(folder', catdir, quarantine'))
  /\ UNCHANGED <<catdir, HAVE_PYCLAMD, runvars, storevars, scan, guivars>>
  /\ UNCHANGED callvars

\* after the loop: the last progress call, and the report when a threat was
\* found or always_send is set
FinishScan ==
  /\ sf.pc = "running"
  /\ sf.i > Len(sf.files)
  /\ \E smtp_ok \in BOOLEAN :
       LET infected_count == CountInfected(sf.scan_results)
           send == infected_count > 0 \/ AlwaysSend
       IN sf' = [sf EXCEPT
                   !.pc = "done",
                   !.progress = Append(@, 100),
                   !.report = IF send
                              THEN send_scan_report(sf.scan_results, sf.mime_results)
                              ELSE NoReport,
                   !.sent = IF send
                            THEN send_email_notification(sf.email_enabled,
                                                         sf.email_configured, smtp_ok)
                            ELSE "none"]
  /\ UNCHANGED <<fsvars, HAVE_PYCLAMD, runvars, storevars, lost, scan, guivars>>
  /\ UNCHANGED callvars

\* send_scan_report called on the results of a finished scan
SendScanReport ==
  /\ sf.pc = "done"
  /\ sf' = [sf EXCEPT !.pc = "reported",
                      !.report = send_scan_report(sf.scan_results, sf.mime_results)]
  /\ UNCHANGED <<fsvars, HAVE_PYCLAMD, runvars, storevars, lost, scan, guivars>>
  /\ UNCHANGED callvars

NextFolder == StartScan \/ ScanStep \/ FinishScan \/ SendScanReport

\* scan_folder runs on a folder without sub-folders, with an empty
\* quarantine, over the installations and email settings there can be
InitFolder ==
  /\ InitWorld
  /\ gc = NoGc
  /\ mq = NoMq
  /\ catdir = <<>>
  /\ quarantine = <<>>
  /\ HAVE_PYCLAMD = FALSE
  /\ scan = NoScan
  /\ \E magic \in BOOLEAN, enabled \in BOOLEAN, configured \in BOOLEAN :
       sf = [NoSf EXCEPT !.have_magic = magic, !.email_enabled = enabled,
                         !.email_configured = configured]

SpecFolder == InitFolder /\ [][NextFolder]_vars

(***************************************************************************)
(* Properties of scan_folder and of the report.                            *)
(***************************************************************************)
\* the prefix the map of this scan expects for the file name
ExpectedFor(name) == sf.expected_mime_map[Lower(Suffix(name))]

\* the positions of the type checks recorded in this scan
MimeChecks == 1..Len(sf.mime_results)

\* C26: a type check has match = false only when a type was detected and
\* lacks the expected prefix, and match = null when the detector is missing
\* or detection failed; scan_folder quarantines a file for a mismatch only when
\* a type was detected.
C26_MismatchOnlyWhenDetected ==
  \A k \in MimeChecks :
    LET m == sf.mime_results[k]
    IN /\ m.match = "False" => m.mime # <<>> /\ ~Contains(m.mime, ExpectedFor(m.name))
       /\ m.mime = <<>> => m.match = "None"
       /\ m.quarantined # "" => m.mime # <<>>

\* the files this scan moved to the quarantine as infected
QuarantinedAsInfected ==
  {sf.scan_results[k].name : k \in {j \in 1..Len(sf.scan_results) :
                                       sf.scan_results[j].quarantined = "to"}}

\* C27: a file scan_folder moved to the quarantine as infected gets no type
\* check, no mismatch record and no second quarantine attempt.
C27_QuarantinedIsConsumed ==
  \A k \in MimeChecks : sf.mime_results[k].name \notin QuarantinedAsInfected

\* C29: the report's subject is the alert subject exactly when a scan result
\* is infected, else the clear subject; the body has the threat section
\* exactly when threats exist and the clear line otherwise, the mismatch
\* section exactly when a type check has match = false, and counts with
\* scanned = threats + clean.
C29_ReportReflectsResults ==
  sf.report # NoReport =>
    LET threats == \E k \in 1..Len(sf.scan_results) : sf.scan_results[k].infected
        mismatches == \E k \in MimeChecks : sf.mime_results[k].match = "False"
        r == sf.report
    IN /\ r.subject = IF threats THEN "alert" ELSE "clear"
       /\ r.threat_section <=> threats
       /\ r.clear_line <=> ~threats
       /\ r.mismatch_section <=> mismatches
       /\ r.scanned = Len(sf.scan_results)
       /\ r.scanned = r.threats + r.clean
       /\ r.threats > 0 <=> threats

\* a report on a scan with no threat and a type mismatch: clear subject,
\* clear line and mismatch section
C29_Witness ==
  /\ sf.pc = "reported"
  /\ sf.report.subject = "clear"
  /\ sf.report.clear_line
  /\ sf.report.mismatch_section
  /\ sf.report.scanned = 2
  /\ sf.report.suspicious >= 1

\* C30: with email enabled and configured, every finished scan_folder call
\* has sent a report (the SMTP exchange may still fail): with threats, with
\* files quarantined for a type mismatch only, and with nothing found.
C30_ReportOnEveryScan ==
  sf.pc = "done" /\ sf.email_enabled /\ sf.email_configured =>
    sf.sent \in {"sent", "failed"} /\ sf.report # NoReport

(***************************************************************************)
(* organize_files while other programs write to the folder: files may      *)
(* appear in the target folder during the run.                             *)
(***************************************************************************)
\* how many files appear during a run
MaxAppear == 1

\* the files that appeared in the folder after the run started
AppearedFiles ==
  {c \in Present(folder, catdir, quarantine) \cup lost : c.origin = "appeared"}

\* another process creates a file in the target folder during the run
Appear ==
  /\ pc = "running"
  /\ Cardinality(AppearedFiles) < MaxAppear
  /\ \E name \in CandidateNames \ DOMAIN folder :
       folder' = Put(folder, name, File("appeared", name, 0))
  /\ UNCHANGED <<catdir, quarantine, HAVE_PYCLAMD, pc, enable_security, files, i,
                 logs, analytics, scan_results, vanished, progress, storevars, lost,
                 scan, guivars, sf>>
  /\ UNCHANGED callvars

NextSnap == StartRun \/ Step \/ Vanish \/ Appear \/ FinishRun

\* the run starts with an empty quarantine
InitSnap ==
  /\ Init
  /\ quarantine = <<>>
  /\ HAVE_PYCLAMD = FALSE

SpecSnap == InitSnap /\ [][NextSnap]_vars

\* the files that were inside a sub-folder when the run started
CategoryFiles ==
  {c \in Present(folder, catdir, quarantine) : c.origin = "category"}

\* file c lies in a sub-folder under its own name, and nowhere else
InSubFolder(c) ==
  /\ c \notin Contents(folder) \cup Contents(quarantine)
  /\ \A p \in PlacesIn(catdir, c) : p[2] = c.name
  /\ Cardinality(PlacesIn(catdir, c)) = 1

\* file c lies in the target folder under its own name, and nowhere else
InFolder(c) ==
  /\ c.name \in DOMAIN folder
  /\ folder[c.name] = c
  /\ PlacesIn(catdir, c) = {}
  /\ c \notin Contents(quarantine)

\* the list files is the regular files directly in the folder, and the files
\* of the sub-folders stay where they are
SnapshotOfDirectChildren ==
  /\ [][pc = "idle" /\ pc' # "idle" => Candidates' = DOMAIN folder]_vars
  /\ [](\A c \in CategoryFiles : InSubFolder(c))

\* C28 as stated: only the regular files directly in the folder at run start
\* are scanned or moved; files in sub-folders and files that appear after the
\* run started are never relocated.
C28_SnapshotOnly ==
  /\ SnapshotOfDirectChildren
  /\ [](\A c \in AppearedFiles : InFolder(c))

\* C28: only the names of the regular files directly in the folder at run
\* start are scanned or moved, and files in sub-folders stay in place; a file
\* that appears after the run started stays where it appeared unless it took
\* the name of a candidate that was deleted before its turn, in which case it
\* may be processed as that candidate.
C28_SnapshotOfNames ==
  /\ SnapshotOfDirectChildren
  /\ [](\A c \in AppearedFiles :
          InFolder(c) \/ (c.name \in Candidates /\ c.name \in vanished))

\* a finished run that moved a candidate and left alone both a file that
\* appeared during the run and a file inside a sub-folder
C28_Witness ==
  /\ pc = "done"
  /\ RelocatedCandidates # {}
  /\ \E c \in AppearedFiles : InFolder(c) /\ c.name \notin Candidates
  /\ CategoryFiles # {}

(***************************************************************************)
(* The classifier on its own: one call of get_category, over the listed    *)
(* extensions and a few unlisted ones, in every letter case.               *)
(***************************************************************************)
\* every extension of the static table
TableExtensions == UNION {FILE_CATEGORIES[k].exts : k \in 1..Len(FILE_CATEGORIES)}

\* extensions the table does not list: three the standard type map knows as
\* image, audio and video, two it knows as other types, the empty extension,
\* one it does not know, and a listed extension without its dot
UnlistedExtensions ==
  {<<".", "w", "e", "b", "p">>, <<".", "o", "g", "g">>, <<".", "w", "e", "b", "m">>, <<".", "e", "x", "e">>, <<".", "h", "t", "m", "l">>, <<>>, <<".", "q">>, <<"p", "d", "f">>}

RECURSIVE CaseVariants(_)
\* the spellings of e in every mix of upper and lower case
CaseVariants(e) ==
  IF e = <<>> THEN {<<>>}
  ELSE {<<c>> \o r : c \in {LowerChar(Head(e)), UpperChar(Head(e))},
                     r \in CaseVariants(Tail(e))}

\* the arguments get_category is called with
Extensions == UNION {CaseVariants(e) : e \in TableExtensions \cup UnlistedExtensions}

InitClassify ==
  /\ InitWorld
  /\ folder = <<>>
  /\ catdir = <<>>
  /\ quarantine = <<>>
  /\ HAVE_PYCLAMD = FALSE
  /\ scan = NoScan
  /\ sf = NoSf
  /\ mq = NoMq
  /\ \E extension \in Extensions : gc = [NoGc EXCEPT !.extension = extension]

\* get_category(gc.extension)
Classify ==
  /\ ~gc.called
  /\ gc' = [gc EXCEPT !.category = get_category(gc.extension), !.called = TRUE]
  /\ UNCHANGED <<fsvars, HAVE_PYCLAMD, runvars, storevars, lost, scan, guivars, sf, mq>>

NextClassify == Classify

SpecClassify == InitClassify /\ [][NextClassify]_vars

(***************************************************************************)
(* Properties of the classifier.                                           *)
(***************************************************************************)
\* a and b are the same extension up to letter case
SameLetters(a, b) ==
  /\ Len(a) = Len(b)
  /\ \A k \in 1..Len(a) : a[k] \in {LowerChar(b[k]), UpperChar(b[k])}

\* the table entries that list the extension ext in some letter case
Owners(ext) ==
  {k \in 1..Len(FILE_CATEGORIES) :
     \E e \in FILE_CATEGORIES[k].exts : SameLetters(ext, e)}

\* the primary type guessed for the unlisted extension ext, whatever its case
GuessedFor(ext) ==
  {GuessMainType(e) : e \in {u \in UnlistedExtensions : SameLetters(ext, u)}}

\* C31: get_category is total and deterministic.  No extension is listed
\* under two categories; a listed extension, in any letter case, yields the
\* one category listing it; an unlisted extension guessed as image, video or
\* audio yields "Images", "Videos" or "Audios"; every other argument, the
\* empty extension included, yields "Others"; the result is never empty.
C31_GetCategoryTotal ==
  /\ \A j, k \in 1..Len(FILE_CATEGORIES) :
       j # k => FILE_CATEGORIES[j].exts \cap FILE_CATEGORIES[k].exts = {}
  /\ gc.called =>
       /\ gc.category # <<>>
       /\ Owners(gc.extension) # {} =>
            /\ Cardinality(Owners(gc.extension)) = 1
            /\ \A k \in Owners(gc.extension) : gc.category = FILE_CATEGORIES[k].cat
       /\ Owners(gc.extension) = {} =>
            /\ <<"i", "m", "a", "g", "e">> \in GuessedFor(gc.extension) => gc.category = <<"I", "m", "a", "g", "e", "s">>
            /\ <<"v", "i", "d", "e", "o">> \in GuessedFor(gc.extension) => gc.category = <<"V", "i", "d", "e", "o", "s">>
            /\ <<"a", "u", "d", "i", "o">> \in GuessedFor(gc.extension) => gc.category = <<"A", "u", "d", "i", "o", "s">>
            /\ GuessedFor(gc.extension) \cap {<<"i", "m", "a", "g", "e">>, <<"v", "i", "d", "e", "o">>, <<"a", "u", "d", "i", "o">>} = {} =>
                 gc.category = Others

\* a listed extension in mixed case has been classified
C31_Witness ==
  /\ gc.called
  /\ gc.extension = <<".", "P", "d", "F">>
  /\ gc.category = Documents

(***************************************************************************)
(* Properties of the command-line fallback's reading of a detection.       *)
(***************************************************************************)
\* clamscan completed and reported a detection for the scanned file
ClamscanReportsFound ==
  /\ CliRaises(scan.cli) = ""
  /\ Contains(ClamscanOutput(scan.path, scan.cli),
              <<":", " ">> \o Signature \o <<" ", "F", "O", "U", "N", "D">>)

\* C34: in the command-line fallback a detection is never masked by other
\* text of the output: whenever clamscan reports FOUND for the scanned file,
\* scan_file returns infected = true, also when the path echoed in the output
\* contains "OK".
C34_DetectionNeverMasked ==
  scan.done /\ ~HAVE_PYCLAMD /\ ClamscanReportsFound => scan.verdict.infected

(***************************************************************************)
(* move_to_quarantine step by step, called from several threads: the       *)
(* window starts an organize run and a security scan each in a thread of   *)
(* its own, and both move infected files into the one QUARANTINE_DIR.      *)
(* Each dest.exists() test and the final shutil.move is a step of its own. *)
(***************************************************************************)
\* how many threads call move_to_quarantine
MaxWriters == 2

\* the names of the files the threads quarantine
WriterNames == {x_exe, a_jpg}

\* the locals of one call of move_to_quarantine before it starts: the source
\* file of thread w is a file of its own, whatever its name
Writer(w, name) ==
  [pc |-> "idle", name |-> name, file |-> File("writer", name, w),
   dest |-> <<>>, counter |-> 1]

\* the while test answering "free" without looking at the directory
probe_blind(t, taken) == [t EXCEPT !.pc = "moving"]

\* one evaluation of "while dest.exists()" with its loop body: the next name
\* to try when dest is taken, else on to the move
probe(t, taken) ==
  IF t.dest \in taken
  THEN [t EXCEPT !.dest = Stem(t.name) \o <<"_">> \o DecStr(t.counter) \o Suffix(t.name),
                 !.counter = @ + 1]
  ELSE [t EXCEPT !.pc = "moving"]

InitRace ==
  /\ InitWorld
  /\ folder = <<>>
  /\ catdir = <<>>
  /\ HAVE_PYCLAMD = FALSE
  /\ scan = NoScan
  /\ sf = NoSf
  /\ gc = NoGc
  /\ \E names \in [1..MaxWriters -> WriterNames] :
       mq = [threads |-> [w \in 1..MaxWriters |-> Writer(w, names[w])],
             interleaved |-> FALSE]

\* a thread enters move_to_quarantine: src exists, dest = QUARANTINE_DIR / src.name
EnterMoveIn ==
  /\ \E w \in DOMAIN mq.threads :
       /\ mq.threads[w].pc = "idle"
       /\ mq' = [threads |-> [mq.threads EXCEPT ![w].pc = "probing",
                                                ![w].dest = mq.threads[w].name],
                 interleaved |-> \/ mq.interleaved
                                 \/ \E u \in DOMAIN mq.threads :
                                      mq.threads[u].pc \in {"probing", "moving"}]
  /\ UNCHANGED <<fsvars, HAVE_PYCLAMD, runvars, storevars, lost, scan, guivars, sf, gc>>

\* a thread evaluates the while test once
ProbeMoveIn ==
  /\ \E w \in DOMAIN mq.threads :
       /\ mq.threads[w].pc = "probing"
       /\ mq' = [mq EXCEPT !.threads[w] = probe(@, DOMAIN quarantine)]
  /\ UNCHANGED <<fsvars, HAVE_PYCLAMD, runvars, storevars, lost, scan, guivars, sf, gc>>

\* a thread runs shutil.move(src, dest) and returns: a file already at dest is replaced
CompleteMoveIn ==
  /\ \E w \in DOMAIN mq.threads :
       /\ mq.threads[w].pc = "moving"
       /\ quarantine' = Put(quarantine, mq.threads[w].dest, mq.threads[w].file)
       /\ mq' = [mq EXCEPT !.threads[w].pc = "done"]
  /\ lost' = lost \cup (Contents(quarantine) \ Contents(quarantine'))
  /\ UNCHANGED <<folder, catdir, HAVE_PYCLAMD, runvars, storevars, scan, guivars, sf, gc>>

NextRace == EnterMoveIn \/ ProbeMoveIn \/ CompleteMoveIn

SpecRace == InitRace /\ [][NextRace]_vars

(***************************************************************************)
(* Properties of concurrent move-ins.                                      *)
(***************************************************************************)
\* the threads whose call has returned
Returned == {w \in DOMAIN mq.threads : mq.threads[w].pc = "done"}

\* C32: the name-collision resolution of move_to_quarantine is correct under
\* a single writer: as long as no call started while another was between its
\* entry and its move, no file is replaced, every returned call's file is in
\* quarantine under the name the call chose, and no two calls chose the same
\* name.  (That interleaved calls can choose one name and lose a file is the
\* state C32_Witness.)
C32_SingleWriterCollisionFree ==
  ~mq.interleaved =>
    /\ lost = {}
    /\ \A w \in Returned :
         /\ mq.threads[w].dest \in DOMAIN quarantine
         /\ quarantine[mq.threads[w].dest] = mq.threads[w].file
    /\ \A w, u \in Returned : w # u => mq.threads[w].dest # mq.threads[u].dest

\* two interleaved move-ins of different files with the same name have both
\* returned with the same destination name, and one file replaced the other:
\* the quarantine holds one entry for the two files
C32_Witness ==
  \E w, u \in Returned :
    /\ w # u
    /\ mq.interleaved
    /\ mq.threads[w].name = mq.threads[u].name
    /\ mq.threads[w].file # mq.threads[u].file
    /\ mq.threads[w].dest = mq.threads[u].dest
    /\ quarantine[mq.threads[w].dest] = mq.threads[w].file
    /\ mq.threads[u].file \in lost
    /\ mq.threads[u].file \notin Contents(quarantine)

(***************************************************************************)
(* Properties of the termination of a run.                                 *)
(***************************************************************************)
\* a log entry that closes the processing of a candidate
IsTerminalEntry(e) == e.kind \in {"moved", "quarantined", "error", "infected"}

\* the candidates that reached a terminal state, in the order they reached it
TerminalNames ==
  LET entries == SelectSeq(logs, IsTerminalEntry)
  IN [k \in 1..Len(entries) |-> entries[k].name]

\* the terminal state the log records for candidate f
TerminalKind(f) ==
  LET entries == SelectSeq(logs, IsTerminalEntry)
  IN entries[CHOOSE k \in 1..Len(entries) : entries[k].name = f].kind

RECURSIVE ProbeIterations(_, _, _, _, _)
\* how many times the body of the while loop of move_to_quarantine runs
ProbeIterations(dest, base, suf, counter, taken) ==
  IF dest \in taken
  THEN 1 + ProbeIterations(base \o <<"_">> \o DecStr(counter) \o suf, base, suf,
                           counter + 1, taken)
  ELSE 0

\* C33: every run over a finite folder terminates.  The candidates reach a
\* terminal state one by one in the order of the list, each exactly once:
\* relocated into one category folder, held by one quarantine entry, or left
\* out of both with an error logged; the loop index never goes back.  With
\* security enabled every candidate is scanned exactly once and
\* scanned = total_files when the run ends.  A started run eventually
\* returns, having made the final call at 100%.  The suffix search of
\* move_to_quarantine ends after at most as many iterations as the
\* quarantine has entries, on a name that is free.
C33_RunTerminates ==
  /\ [](pc \in {"running", "done"} =>
          /\ i <= Len(files) + 1
          /\ TerminalNames = SubSeq(files, 1, i - 1)
          /\ \A k \in 1..(i - 1) :
               LET f == files[k]
               IN CASE TerminalKind(f) = "moved" ->
                         Relocated(f) /\ QuarantinePlaces(f) = {}
                    [] TerminalKind(f) = "quarantined" ->
                         Quarantined(f) /\ CategoryPlaces(f) = {}
                    [] OTHER -> CategoryPlaces(f) = {} /\ QuarantinePlaces(f) = {}
          /\ enable_security =>
               /\ [k \in 1..Len(scan_results) |-> scan_results[k].name]
                    = SubSeq(files, 1, i - 1)
               /\ sec.scanned = i - 1)
  /\ [](pc = "done" =>
          /\ i = Len(files) + 1
          /\ enable_security => sec.scanned = analytics.total_files
          /\ progress # <<>>
          /\ \E k \in 1..Len(progress) :
               progress[k].pct = 100 /\ progress[k].kind \in {"completed", "nofiles"})
  /\ [][pc = "running" => i' \in {i, i + 1}]_vars
  /\ [](\A name \in CandidateNames :
          /\ ProbeIterations(name, Stem(name), Suffix(name), 1, DOMAIN quarantine)
               <= Cardinality(DOMAIN quarantine)
          /\ QuarantineDest(name, DOMAIN quarantine) \notin DOMAIN quarantine)
  /\ (pc = "running" ~> pc = "done")

\* a run with security enabled over two candidates has returned: one was
\* quarantined after the suffix search went past a taken name, the other
\* was relocated
C33_Witness ==
  /\ pc = "done"
  /\ enable_security
  /\ Len(files) = 2
  /\ sec.scanned = 2
  /\ \E f \in Candidates : Quarantined(f) /\ QuarantinePlaces(f) # {f}
  /\ \E f \in Candidates : Relocated(f)
  /\ progress[Len(progress)].pct = 100

====
